---- MODULE Spec2Model ----
(***************************************************************************)
(* Verification model of the trade normalisation and FIFO tax pipeline:    *)
(*   calculate_fifo_taxes.py  (Lot, FIFOTaxCalculator)                      *)
(*   fetch_all_trades.py      (export_to_csv, main)                         *)
(*   parse_*_trades.py        (swap classifiers)                            *)
(*   calculate_prices.py      (PriceFeedBuilder, add_prices_to_trades)      *)
(*                                                                         *)
(* Decimal values are modelled as exact rationals <<n, d>> (d > 0, lowest  *)
(* terms).  Python's Decimal context keeps 28 significant digits; every    *)
(* value of the bounded model needs far fewer, except non-terminating      *)
(* quotients, which the model keeps exact.  Token amounts are integers in  *)
(* the smallest unit, USD amounts are integers in cents.                   *)
(***************************************************************************)
EXTENDS Integers, Sequences, FiniteSets, TLC

VARIABLES inventory, next_trade_id, tax_records, added, matched, last,
          cost_added, cost_taken,
          pos, pc,
          settings, chain_i, addr_i, results, first_run, output_csv,
          parser_data, parser_trades, parser_last,
          price_trades, price_feed, symbol_to_addresses, price_i, quoted, price_last

vars == <<inventory, next_trade_id, tax_records, added, matched, last,
          cost_added, cost_taken,
          pos, pc,
          settings, chain_i, addr_i, results, first_run, output_csv,
          parser_data, parser_trades, parser_last,
          price_trades, price_feed, symbol_to_addresses, price_i, quoted, price_last>>

calcVars == <<inventory, next_trade_id, tax_records, added, matched, last,
              cost_added, cost_taken>>
mainVars == <<settings, chain_i, addr_i, results, first_run, output_csv>>
parseVars == <<parser_data, parser_trades, parser_last>>
priceVars == <<price_trades, price_feed, symbol_to_addresses, price_i, quoted, price_last>>

(***************************************************************************)
(* Bounds of the model.                                                    *)
(***************************************************************************)
MaxCalls == 4
MaxTime == 3
MaxRows == 3

Tokens == {"ETH", "DAI"}
Currencies == Tokens \cup {"USD"}
\* <<amount, cost basis in USD>> of the lots a caller adds, and the amounts
\* it sells.
LotSet == {<<100, 150>>, <<50, 100>>, <<30, 100>>, <<0, 100>>}
SellSet == {0, 20, 30, 120}

(***************************************************************************)
(* Exact rational arithmetic standing for decimal.Decimal.                 *)
(***************************************************************************)
Abs(x) == IF x < 0 THEN -x ELSE x

RECURSIVE GCD(_, _)
GCD(a, b) == IF b = 0 THEN a ELSE GCD(b, a % b)

Norm(n, d) ==
  LET s == IF d < 0 THEN -1 ELSE 1
      g == GCD(Abs(n), Abs(d))
  IN  <<(s * n) \div g, (s * d) \div g>>

Dec(n) == <<n, 1>>
RAdd(x, y) == Norm(x[1] * y[2] + y[1] * x[2], x[2] * y[2])
RSub(x, y) == Norm(x[1] * y[2] - y[1] * x[2], x[2] * y[2])
RMul(x, y) == Norm(x[1] * y[1], x[2] * y[2])
RDiv(x, y) == Norm(x[1] * y[2], x[2] * y[1])
RLe(x, y) == x[1] * y[2] <= y[1] * x[2]
RLt(x, y) == x[1] * y[2] < y[1] * x[2]

PriceSet == {Dec(0), <<5, 2>>}

(***************************************************************************)
(* Lot and the inventory (a defaultdict: absent keys read as empty).       *)
(***************************************************************************)
Lot(trade_id, amount, cost_basis_usd, acquisition_date, token_symbol) ==
  [trade_id |-> trade_id,
   amount |-> amount,
   cost_basis_usd |-> cost_basis_usd,
   acquisition_date |-> acquisition_date,
   token_symbol |-> token_symbol,
   cost_per_token |-> IF amount > 0 THEN RDiv(cost_basis_usd, Dec(amount))
                      ELSE Dec(0)]

Queue(inv, token_symbol) ==
  IF token_symbol \in DOMAIN inv THEN inv[token_symbol] ELSE <<>>

SetQueue(inv, token_symbol, q) ==
  [t \in (DOMAIN inv) \cup {token_symbol} |->
     IF t = token_symbol THEN q ELSE inv[t]]

\* Faulty variant: the new lot is put in front of the lots already queued.
add_lot_AtHead(inv, token_symbol, amount, cost_basis_usd, trade_id, acquisition_date) ==
  SetQueue(inv, token_symbol,
           <<Lot(trade_id, amount, cost_basis_usd, acquisition_date,
                 token_symbol)>> \o Queue(inv, token_symbol))

add_lot(inv, token_symbol, amount, cost_basis_usd, trade_id, acquisition_date) ==
  SetQueue(inv, token_symbol,
           Append(Queue(inv, token_symbol),
                  Lot(trade_id, amount, cost_basis_usd, acquisition_date,
                      token_symbol)))

(***************************************************************************)
(* match_sell_fifo: the while loop over the head of the queue.             *)
(***************************************************************************)
\* Faulty variant: the whole cost basis of the lot is taken.
CostFromLot_WholeLot(lot, amount_remaining) == lot.cost_basis_usd

CostFromLot(lot, amount_remaining) ==
  RMul(lot.cost_basis_usd, RDiv(Dec(amount_remaining), Dec(lot.amount)))

\* Faulty variant: the lot keeps its amount after a partial consumption.
PartialConsume_KeepAmount(lot, amount_remaining) ==
  [lot EXCEPT !.cost_basis_usd = RSub(@, CostFromLot(lot, amount_remaining))]

PartialConsume(lot, amount_remaining) ==
  [lot EXCEPT !.amount = @ - amount_remaining,
              !.cost_basis_usd = RSub(@, CostFromLot(lot, amount_remaining))]

ConsumesWhole(lot, amount_remaining) == lot.amount <= amount_remaining

\* Faulty variant: a lot consumed whole adds nothing to the cost basis.
WholeCost_Nothing(lot) == Dec(0)

\* total_cost_basis += lot.cost_basis_usd of a lot consumed whole.
WholeCost(lot) == lot.cost_basis_usd

RECURSIVE MatchLoop(_, _, _, _)
MatchLoop(lots, amount_remaining, total_cost_basis, matched_trade_ids) ==
  IF amount_remaining > 0 /\ lots # <<>>
  THEN LET lot == Head(lots) IN
       IF ConsumesWhole(lot, amount_remaining)
       THEN MatchLoop(Tail(lots),
                      amount_remaining - lot.amount,
                      RAdd(total_cost_basis, WholeCost(lot)),
                      Append(matched_trade_ids, lot.trade_id))
       ELSE MatchLoop(<<PartialConsume(lot, amount_remaining)>> \o Tail(lots),
                      0,
                      RAdd(total_cost_basis, CostFromLot(lot, amount_remaining)),
                      Append(matched_trade_ids, lot.trade_id))
  ELSE [lots |-> lots,
        amount_remaining |-> amount_remaining,
        total_cost_basis |-> total_cost_basis,
        matched_trade_ids |-> matched_trade_ids]

\* Faulty variant: the uncovered amount gets no cost basis.
FallbackCost_Zero(amount_remaining, sale_price_per_token) == Dec(0)

FallbackCost(amount_remaining, sale_price_per_token) ==
  RMul(Dec(amount_remaining), sale_price_per_token)

\* Result of match_sell_fifo: the new inventory, the returned pair and, for
\* the accounting of the properties, the amount left uncovered.
match_sell_fifo(inv, token_symbol, amount_to_sell, sale_price_per_token) ==
  IF token_symbol \notin DOMAIN inv \/ Len(inv[token_symbol]) = 0
  THEN [inventory |-> inv,
        total_cost_basis |-> FallbackCost(amount_to_sell, sale_price_per_token),
        matched_trade_ids |-> <<>>,
        consumed |-> 0,
        from_lots |-> Dec(0),
        uncovered |-> amount_to_sell]
  ELSE LET r == MatchLoop(inv[token_symbol], amount_to_sell, Dec(0), <<>>) IN
       [inventory |-> [inv EXCEPT ![token_symbol] = r.lots],
        total_cost_basis |->
          IF r.amount_remaining > 0
          THEN RAdd(r.total_cost_basis,
                    FallbackCost(r.amount_remaining, sale_price_per_token))
          ELSE r.total_cost_basis,
        matched_trade_ids |-> r.matched_trade_ids,
        consumed |-> amount_to_sell - r.amount_remaining,
        from_lots |-> r.total_cost_basis,
        uncovered |-> IF r.amount_remaining > 0 THEN r.amount_remaining ELSE 0]

(***************************************************************************)
(* Direct use of one FIFOTaxCalculator: any sequence of add_lot and        *)
(* match_sell_fifo calls.  The caller numbers its calls as process_trades  *)
(* does (next_trade_id).                                                   *)
(***************************************************************************)
NoCall ==
  [op |-> "none", token |-> "", amount |-> 0, price |-> Dec(0), pre |-> <<>>,
   had_key |-> FALSE, cost |-> Dec(0), ids |-> <<>>, consumed |-> 0,
   uncovered |-> 0, pre_inv |-> <<>>, pre_tax |-> 0, proceeds |-> 0,
   outcome |-> "none", row |-> <<>>]

InitCalc ==
  /\ inventory = <<>>
  /\ next_trade_id = 1
  /\ tax_records = <<>>
  /\ added = [t \in Currencies |-> 0]
  /\ cost_added = [t \in Currencies |-> Dec(0)]
  /\ cost_taken = [t \in Currencies |-> Dec(0)]
  /\ matched = [t \in Currencies |-> 0]
  /\ last = NoCall

\* The orchestrator and the parsers take no part in this specification.
MainIdle ==
  /\ settings = <<>>
  /\ chain_i = 0
  /\ addr_i = 0
  /\ results = {}
  /\ first_run = TRUE
  /\ output_csv = [exists |-> FALSE, lines |-> <<>>]

ParserIdle ==
  /\ parser_data = <<>>
  /\ parser_trades = <<>>
  /\ parser_last = [op |-> "none"]

PriceIdle ==
  /\ price_trades = <<>>
  /\ price_feed = <<>>
  /\ symbol_to_addresses = <<>>
  /\ price_i = 0
  /\ quoted = {}
  /\ price_last = [op |-> "none"]

Init ==
  /\ InitCalc
  /\ MainIdle
  /\ ParserIdle
  /\ PriceIdle
  /\ pos = 0
  /\ pc = "calls"

AddLot ==
  /\ pc = "calls"
  /\ next_trade_id <= MaxCalls
  /\ \E t \in Tokens, l \in LotSet :
       LET a == l[1]  c == l[2] IN
       /\ inventory' = add_lot(inventory, t, a, Dec(c), next_trade_id,
                               next_trade_id)
       /\ added' = [added EXCEPT ![t] = @ + a]
       /\ cost_added' = [cost_added EXCEPT ![t] = RAdd(@, Dec(c))]
       /\ last' = [NoCall EXCEPT !.op = "add_lot", !.token = t, !.amount = a,
                                 !.cost = Dec(c),
                                 !.pre = Queue(inventory, t),
                                 !.had_key = t \in DOMAIN inventory,
                                 !.pre_inv = inventory]
  /\ next_trade_id' = next_trade_id + 1
  /\ UNCHANGED <<tax_records, matched, cost_taken, pos, pc, mainVars, parseVars,
                 priceVars>>

MatchSellFifo ==
  /\ pc = "calls"
  /\ next_trade_id <= MaxCalls
  /\ \E t \in Tokens, a \in SellSet, p \in PriceSet :
       LET r == match_sell_fifo(inventory, t, a, p) IN
       /\ inventory' = r.inventory
       /\ matched' = [matched EXCEPT ![t] = @ + r.consumed]
       /\ cost_taken' = [cost_taken EXCEPT ![t] = RAdd(@, r.from_lots)]
       /\ last' = [NoCall EXCEPT !.op = "match_sell_fifo", !.token = t,
                                 !.amount = a, !.price = p,
                                 !.pre = Queue(inventory, t),
                                 !.had_key = t \in DOMAIN inventory,
                                 !.cost = r.total_cost_basis,
                                 !.ids = r.matched_trade_ids,
                                 !.consumed = r.consumed,
                                 !.uncovered = r.uncovered,
                                 !.pre_inv = inventory]
  /\ next_trade_id' = next_trade_id + 1
  /\ UNCHANGED <<tax_records, added, cost_added, pos, pc, mainVars, parseVars,
                 priceVars>>

Next == AddLot \/ MatchSellFifo

Spec == Init /\ [][Next]_vars

(***************************************************************************)
(* process_trades: one iteration of the loop over the rows of the trade    *)
(* file.  A field of a row is a number, the text N/A, or text that is not  *)
(* a number; a date is a timestamp or text that strptime rejects.          *)
(***************************************************************************)
Num(v) == [k |-> "num", v |-> v]
NA == [k |-> "na", v |-> 0]
Bad == [k |-> "bad", v |-> 0]

Row(date_time, src_cur, src_amt, tgt_cur, tgt_amt, platform, address) ==
  [date_time |-> date_time,
   source_currency |-> src_cur,
   source_amount |-> src_amt,
   target_currency |-> tgt_cur,
   target_amount |-> tgt_amt,
   platform |-> platform,
   address |-> address]

\* Decimal(str(field)) raises decimal.InvalidOperation on text that is not a
\* number; the except clause names ValueError and TypeError only.
DecimalRaises(field) == field.k # "num"

\* datetime.strptime raises ValueError on a date it cannot parse.
DateRaises(date_time) == date_time.k # "num"

\* x.quantize(Decimal('0.01'), rounding=ROUND_DOWN) on an amount in cents.
QuantizeDown(x) ==
  IF x[1] >= 0 THEN x[1] \div x[2] ELSE -((-x[1]) \div x[2])

SalePricePerToken(sale_proceeds, amount_sold) ==
  IF sale_proceeds > 0 THEN RDiv(Dec(sale_proceeds), Dec(amount_sold))
  ELSE Dec(0)

TaxRecord(trade_id, row, amount_sold, sale_proceeds, cost_basis, buy_tx_ids) ==
  [trade_id |-> trade_id,
   date_time |-> row.date_time,
   token_sold |-> row.source_currency,
   amount_sold |-> amount_sold,
   sale_proceeds_usd |-> sale_proceeds,
   cost_basis_usd |-> QuantizeDown(cost_basis),
   profit_usd |-> QuantizeDown(RSub(Dec(sale_proceeds), cost_basis)),
   buy_tx_ids |-> buy_tx_ids,
   platform |-> row.platform,
   address |-> row.address]

RowCall(row) ==
  [NoCall EXCEPT !.op = "row", !.row = row, !.pre_inv = inventory,
                 !.pre_tax = Len(tax_records)]

\* The body of the for loop for one row.  An exception that no handler
\* catches ends process_trades (pc = "crashed").
ProcessTradesRow(row) ==
  /\ next_trade_id' = next_trade_id + 1
  /\ IF row.target_amount.k = "na" \/ row.source_amount.k = "na"
     THEN /\ last' = [RowCall(row) EXCEPT !.outcome = "skipped"]
          /\ UNCHANGED <<inventory, tax_records, added, matched, cost_added,
                         cost_taken, pc>>
     ELSE IF DecimalRaises(row.source_amount) \/ DecimalRaises(row.target_amount)
     THEN /\ last' = [RowCall(row) EXCEPT !.outcome = "InvalidOperation"]
          /\ pc' = "crashed"
          /\ UNCHANGED <<inventory, tax_records, added, matched, cost_added,
                         cost_taken>>
     ELSE IF DateRaises(row.date_time)
     THEN /\ last' = [RowCall(row) EXCEPT !.outcome = "skipped"]
          /\ UNCHANGED <<inventory, tax_records, added, matched, cost_added,
                         cost_taken, pc>>
     ELSE IF row.target_currency = "USD"
     THEN LET sale_proceeds == row.target_amount.v
              token_sold == row.source_currency
              amount_sold == row.source_amount.v
          IN  IF sale_proceeds > 0 /\ amount_sold = 0
              THEN /\ last' = [RowCall(row) EXCEPT !.outcome = "DivisionByZero"]
                   /\ pc' = "crashed"
                   /\ UNCHANGED <<inventory, tax_records, added, matched, cost_added,
                         cost_taken>>
              ELSE LET price == SalePricePerToken(sale_proceeds, amount_sold)
                       r == match_sell_fifo(inventory, token_sold, amount_sold,
                                            price)
                   IN  /\ inventory' = r.inventory
                       /\ matched' = [matched EXCEPT ![token_sold] = @ + r.consumed]
                       /\ cost_taken' = [cost_taken EXCEPT
                                           ![token_sold] = RAdd(@, r.from_lots)]
                       /\ tax_records' =
                            Append(tax_records,
                                   TaxRecord(next_trade_id, row, amount_sold,
                                             sale_proceeds, r.total_cost_basis,
                                             r.matched_trade_ids))
                       /\ last' = [RowCall(row) EXCEPT
                                     !.outcome = "sell",
                                     !.token = token_sold,
                                     !.amount = amount_sold,
                                     !.price = price,
                                     !.proceeds = sale_proceeds,
                                     !.pre = Queue(inventory, token_sold),
                                     !.had_key = token_sold \in DOMAIN inventory,
                                     !.cost = r.total_cost_basis,
                                     !.ids = r.matched_trade_ids,
                                     !.consumed = r.consumed,
                                     !.uncovered = r.uncovered]
                       /\ UNCHANGED <<added, cost_added, pc>>
     ELSE IF row.source_currency = "USD"
     THEN /\ inventory' = add_lot(inventory, row.target_currency,
                                  row.target_amount.v, Dec(row.source_amount.v),
                                  next_trade_id, row.date_time.v)
          /\ added' = [added EXCEPT ![row.target_currency] = @ + row.target_amount.v]
          /\ cost_added' = [cost_added EXCEPT
                              ![row.target_currency] = RAdd(@, Dec(row.source_amount.v))]
          /\ last' = [RowCall(row) EXCEPT
                        !.outcome = "buy",
                        !.token = row.target_currency,
                        !.amount = row.target_amount.v,
                        !.cost = Dec(row.source_amount.v),
                        !.pre = Queue(inventory, row.target_currency),
                        !.had_key = row.target_currency \in DOMAIN inventory]
          /\ UNCHANGED <<tax_records, matched, cost_taken, pc>>
     ELSE /\ last' = [RowCall(row) EXCEPT !.outcome = "ignored"]
          /\ UNCHANGED <<inventory, tax_records, added, matched, cost_added,
                         cost_taken, pc>>

(***************************************************************************)
(* process_trades on an arbitrary trade file: the rows are drawn one at a  *)
(* time as the reader delivers them.                                       *)
(***************************************************************************)
ProceedsSet == {0, 300}

BuyRows ==
  {Row(Num(1), "USD", Num(l[2]), t, Num(l[1]), "ethereum", "a1") :
     t \in Tokens, l \in LotSet}

SellRows ==
  {Row(Num(1), t, Num(a), "USD", Num(p), "ethereum", "a1") :
     t \in Tokens, a \in SellSet, p \in ProceedsSet}

MalformedRows ==
  {Row(Num(1), "ETH", Bad, "USD", Num(300), "ethereum", "a1"),
   Row(Num(1), "USD", Num(100), "ETH", Bad, "ethereum", "a1"),
   Row(Bad, "USD", Num(100), "ETH", Num(50), "ethereum", "a1"),
   Row(Bad, "ETH", Num(20), "USD", Num(300), "ethereum", "a1")}

OtherRows ==
  {Row(Num(1), "ETH", Num(20), "USD", NA, "ethereum", "a1"),
   Row(Num(1), "USD", NA, "DAI", Num(50), "ethereum", "a1"),
   Row(Num(1), "ETH", Num(20), "DAI", Num(50), "ethereum", "a1")}

RowSet == BuyRows \cup SellRows \cup MalformedRows \cup OtherRows

InitRows ==
  /\ InitCalc
  /\ MainIdle
  /\ ParserIdle
  /\ PriceIdle
  /\ pos = 0
  /\ pc = "process_trades"

ReadRow ==
  /\ pc = "process_trades"
  /\ pos < MaxRows
  /\ \E row \in RowSet : ProcessTradesRow(row)
  /\ pos' = pos + 1
  /\ UNCHANGED <<mainVars, parseVars, priceVars>>

EndOfFile ==
  /\ pc = "process_trades"
  /\ pc' = "returned"
  /\ UNCHANGED <<calcVars, pos, mainVars, parseVars, priceVars>>

NextRows == ReadRow \/ EndOfFile

SpecRows == InitRows /\ [][NextRows]_vars

(***************************************************************************)
(* fetch_all_trades.py: export_to_csv and main.  The combined trade file   *)
(* is a sequence of lines; a line is the header or a data row.             *)
(***************************************************************************)
Header == [header |-> TRUE]
IsHeader(line) == "header" \in DOMAIN line

NoCsv == [exists |-> FALSE, lines |-> <<>>]

\* An enriched and priced trade as export_to_csv reads it.  Amounts are in
\* token units, prices in cents per unit; a missing price (None) is 0, which
\* the truth tests of export_to_csv treat alike.
Trade(ts, sym_in, amt_in, sym_out, amt_out, src_price, tgt_price) ==
  [timestamp |-> ts,
   token_in_symbol |-> sym_in,
   amount_in |-> amt_in,
   token_out_symbol |-> sym_out,
   amount_out |-> amt_out,
   source_price_usd |-> src_price,
   target_price_usd |-> tgt_price]

\* format_date_for_csv: the timestamp rendered to the second.
format_date_for_csv(timestamp) == Num(timestamp)

\* The fee filter for swaps with an UNKNOWN token (TRUE: the trade is dropped).
\* $10 is 1000 cents; an amount below 0.1 unit is an amount of 0 units.
FilteredAsFee(trade) ==
  LET has_unknown == trade.token_in_symbol = "UNKNOWN"
                       \/ trade.token_out_symbol = "UNKNOWN"
      usd_value == IF trade.source_price_usd # 0
                   THEN trade.source_price_usd * trade.amount_in
                   ELSE IF trade.target_price_usd # 0
                   THEN trade.target_price_usd * trade.amount_out
                   ELSE 0
  IN  /\ has_unknown
      /\ \/ usd_value > 0 /\ usd_value < 1000
         \/ IF trade.token_in_symbol \in {"BNB", "ETH"}
            THEN trade.amount_in * 10 < 1
            ELSE IF trade.token_out_symbol \in {"BNB", "ETH"}
            THEN trade.amount_out * 10 < 1
            ELSE trade.amount_in < 10 /\ trade.amount_out < 10

\* Faulty variant: a missing source price is written as a USD amount of 0.
ExportRows_ZeroUsd(trade, blockchain, address) ==
  IF FilteredAsFee(trade) THEN <<>>
  ELSE LET source_value == trade.source_price_usd * trade.amount_in
           date_str == format_date_for_csv(trade.timestamp)
           usd_amount == Num(source_value)
           target_amount_str == IF trade.amount_out > 0
                                THEN Num(trade.amount_out) ELSE NA
       IN  <<Row(date_str, trade.token_in_symbol, Num(trade.amount_in), "USD",
                 usd_amount, blockchain, address),
             Row(date_str, "USD", usd_amount, trade.token_out_symbol,
                 target_amount_str, blockchain, address)>>

\* The two rows export_to_csv writes for one trade.
ExportRows(trade, blockchain, address) ==
  IF FilteredAsFee(trade) THEN <<>>
  ELSE LET source_value == trade.source_price_usd * trade.amount_in
           date_str == format_date_for_csv(trade.timestamp)
           usd_amount == IF source_value # 0 THEN Num(source_value) ELSE NA
           target_amount_str == IF trade.amount_out > 0
                                THEN Num(trade.amount_out) ELSE NA
       IN  <<Row(date_str, trade.token_in_symbol, Num(trade.amount_in), "USD",
                 usd_amount, blockchain, address),
             Row(date_str, "USD", usd_amount, trade.token_out_symbol,
                 target_amount_str, blockchain, address)>>

RECURSIVE ExportAll(_, _, _)
ExportAll(trades, blockchain, address) ==
  IF trades = <<>> THEN <<>>
  ELSE ExportRows(Head(trades), blockchain, address)
         \o ExportAll(Tail(trades), blockchain, address)

\* open(output_csv, 'a' or 'w') followed by the header of a new file.
OpenCsv(csv, append_mode) ==
  [exists |-> TRUE,
   lines |-> IF append_mode THEN csv.lines ELSE <<Header>>]

export_to_csv(csv, trades, blockchain, address, append_mode) ==
  IF trades = <<>> THEN csv
  ELSE LET opened == OpenCsv(csv, append_mode) IN
       [opened EXCEPT !.lines = @ \o ExportAll(trades, blockchain, address)]

\* validate_address of the fetcher classes: the address has the form of the
\* chain family.
is_evm_chain(chain) == chain \in {"ethereum", "base"}

validate_address(chain, address) ==
  IF is_evm_chain(chain) THEN address.form = "evm" ELSE address.form = chain

Addr(name, form) == [name |-> name, form |-> form]

Chains == <<"ethereum", "sui">>

\* WALLET_ADDRESSES and NON_EVM_ADDRESSES of blockchain_settings.py.
Settings(wallets, sui) ==
  [WALLET_ADDRESSES |-> wallets, NON_EVM_ADDRESSES |-> sui]

SettingsSet ==
  {Settings(<<Addr("a1", "evm"), Addr("a2", "evm")>>, <<Addr("s1", "sui")>>),
   Settings(<<Addr("a1", "evm"), Addr("a2", "short")>>, <<Addr("s1", "sui")>>),
   Settings(<<Addr("a1", "short"), Addr("a2", "evm")>>, <<Addr("s1", "sui")>>),
   Settings(<<Addr("a1", "evm")>>, <<>>),
   Settings(<<>>, <<Addr("s1", "sui")>>)}

AddressesOf(chain) ==
  IF is_evm_chain(chain) THEN settings.WALLET_ADDRESSES
  ELSE settings.NON_EVM_ADDRESSES

\* The trades one (chain, address) run can find.
TradeSet ==
  {Trade(ts, d[1], 20, d[2], 30, p, 0) :
     ts \in 1..MaxTime, d \in {<<"ETH", "DAI">>, <<"DAI", "ETH">>}, p \in {0, 5}}
  \cup {Trade(1, "UNKNOWN", 5, "ETH", 1, 1, 0)}

TradeLists == {<<>>} \cup {<<t>> : t \in TradeSet}

InitMain ==
  /\ InitCalc
  /\ ParserIdle
  /\ PriceIdle
  /\ settings \in SettingsSet
  /\ chain_i = 1
  /\ addr_i = 1
  /\ results = {}
  /\ first_run = TRUE
  /\ output_csv = NoCsv
  /\ pos = 0
  /\ pc = "main"

Result(chain, address, status) ==
  [chain |-> chain, address |-> address, status |-> status]

\* The position of the two loops after the current address.
Advance ==
  IF addr_i < Len(AddressesOf(Chains[chain_i]))
  THEN /\ addr_i' = addr_i + 1
       /\ UNCHANGED chain_i
  ELSE /\ addr_i' = 1
       /\ chain_i' = chain_i + 1

InLoop ==
  /\ pc = "main"
  /\ chain_i <= Len(Chains)

\* A chain without configured addresses is skipped.
SkipChain ==
  /\ InLoop
  /\ AddressesOf(Chains[chain_i]) = <<>>
  /\ results' = results \cup {Result(Chains[chain_i], "", "skipped")}
  /\ chain_i' = chain_i + 1
  /\ addr_i' = 1
  /\ UNCHANGED <<calcVars, pos, pc, settings, first_run, output_csv, parseVars, priceVars>>

CurrentAddress == AddressesOf(Chains[chain_i])[addr_i]

HasAddress ==
  /\ InLoop
  /\ AddressesOf(Chains[chain_i]) # <<>>

\* process_single_chain_address calls sys.exit(1) on an address of the wrong
\* format; SystemExit is not an Exception, so the handler of main does not
\* catch it and main ends there.
RunInvalidAddress ==
  /\ HasAddress
  /\ ~validate_address(Chains[chain_i], CurrentAddress)
  /\ pc' = "exited"
  /\ UNCHANGED <<calcVars, pos, mainVars, parseVars, priceVars>>

\* A step of the run raises an Exception before export_to_csv opens the
\* file (fetch, parse, enrich, price): recorded, the loop goes on.
RunFails ==
  /\ HasAddress
  /\ validate_address(Chains[chain_i], CurrentAddress)
  /\ results' = results \cup
       {Result(Chains[chain_i], CurrentAddress.name, "error")}
  /\ Advance
  /\ UNCHANGED <<calcVars, pos, pc, settings, first_run, output_csv, parseVars, priceVars>>

\* export_to_csv raises on its first trade, after it opened the file.
RunFailsInExport ==
  /\ HasAddress
  /\ validate_address(Chains[chain_i], CurrentAddress)
  /\ output_csv' = OpenCsv(output_csv, ~first_run)
  /\ results' = results \cup
       {Result(Chains[chain_i], CurrentAddress.name, "error")}
  /\ Advance
  /\ UNCHANGED <<calcVars, pos, pc, settings, first_run, parseVars, priceVars>>

\* The run completes: its trades are exported and first_run is cleared.
RunSucceeds ==
  /\ HasAddress
  /\ validate_address(Chains[chain_i], CurrentAddress)
  /\ \E trades \in TradeLists :
       output_csv' = export_to_csv(output_csv, trades, Chains[chain_i],
                                   CurrentAddress.name, ~first_run)
  /\ results' = results \cup
       {Result(Chains[chain_i], CurrentAddress.name, "success")}
  /\ first_run' = FALSE
  /\ Advance
  /\ UNCHANGED <<calcVars, pos, pc, settings, parseVars, priceVars>>

\* KeyboardInterrupt: recorded, the remaining addresses of the chain are
\* left out (break).
RunInterrupted ==
  /\ HasAddress
  /\ validate_address(Chains[chain_i], CurrentAddress)
  /\ results' = results \cup
       {Result(Chains[chain_i], CurrentAddress.name, "interrupted")}
  /\ chain_i' = chain_i + 1
  /\ addr_i' = 1
  /\ UNCHANGED <<calcVars, pos, pc, settings, first_run, output_csv, parseVars, priceVars>>

\* parse_date of the final sort: an unparseable date sorts as datetime.min.
parse_date(line) ==
  IF IsHeader(line) THEN -1
  ELSE IF line.date_time.k = "num" THEN line.date_time.v ELSE -1

RECURSIVE InsertDescending(_, _)
InsertDescending(sorted, x) ==
  IF sorted = <<>> THEN <<x>>
  ELSE IF parse_date(Head(sorted)) >= parse_date(x)
  THEN <<Head(sorted)>> \o InsertDescending(Tail(sorted), x)
  ELSE <<x>> \o sorted

RECURSIVE SortFrom(_, _)
SortFrom(sorted, rest) ==
  IF rest = <<>> THEN sorted
  ELSE SortFrom(InsertDescending(sorted, Head(rest)), Tail(rest))

\* rows.sort(key=parse_date, reverse=True): descending and stable.
SortedDescending(lines) == SortFrom(<<>>, lines)

\* The final sort of main.  csv.DictReader takes the first line as the field
\* names, whatever it holds; without a date_time field every row has the key
\* datetime.min and the order is kept.
SortCsv ==
  /\ pc = "main"
  /\ chain_i > Len(Chains)
  /\ output_csv' =
       IF output_csv.exists /\ Len(output_csv.lines) > 1
       THEN IF IsHeader(output_csv.lines[1])
            THEN [output_csv EXCEPT
                    !.lines = <<Header>> \o SortedDescending(Tail(@))]
            ELSE output_csv
       ELSE output_csv
  /\ pc' = "process_trades"
  /\ UNCHANGED <<calcVars, pos, settings, chain_i, addr_i, results, first_run,
                 parseVars, priceVars>>

\* process_trades on the combined file: the reader delivers the next row.
DataRows == Tail(output_csv.lines)

ReadCsvRow ==
  /\ pc = "process_trades"
  /\ chain_i > Len(Chains)
  /\ output_csv.exists
  /\ Len(output_csv.lines) > 1
  /\ pos < Len(DataRows)
  /\ IF IsHeader(output_csv.lines[1]) /\ ~IsHeader(DataRows[pos + 1])
     THEN ProcessTradesRow(DataRows[pos + 1])
     ELSE /\ pc' = "crashed"
          /\ last' = [NoCall EXCEPT !.op = "row", !.outcome = "KeyError"]
          /\ UNCHANGED <<inventory, next_trade_id, tax_records, added, matched,
                         cost_added, cost_taken>>
  /\ pos' = pos + 1
  /\ UNCHANGED <<mainVars, parseVars, priceVars>>

\* The file is missing (open raises) or the reader is exhausted.
EndOfCsv ==
  /\ pc = "process_trades"
  /\ chain_i > Len(Chains)
  /\ \/ ~output_csv.exists /\ pc' = "crashed"
     \/ /\ output_csv.exists
        /\ IF Len(output_csv.lines) <= 1 THEN TRUE ELSE pos = Len(DataRows)
        /\ pc' = "returned"
  /\ UNCHANGED <<calcVars, pos, mainVars, parseVars, priceVars>>

NextMain ==
  \/ SkipChain
  \/ RunInvalidAddress
  \/ RunFails
  \/ RunFailsInExport
  \/ RunSucceeds
  \/ RunInterrupted
  \/ SortCsv
  \/ ReadCsvRow
  \/ EndOfCsv

SpecMain == InitMain /\ [][NextMain]_vars

(***************************************************************************)
(* Trade parsers: parse_ethereum_trades.py, parse_sui_trades.py and        *)
(* parse_solana_trades.py.  A Python dict is a sequence of [k, v] entries  *)
(* in insertion order, so that max() over its items breaks ties as Python  *)
(* does (the first maximal item wins).  Amounts are integers, as after     *)
(* int(); str(amount) is one-to-one on them and is not modelled.  TLC's    *)
(* integers are 32 bits wide: the native-asset thresholds 10^17 and 10^16  *)
(* of the source are scaled to 100 and 10, which keeps their order         *)
(* relative to 0, to the placeholder amount 1 and to each other.           *)
(***************************************************************************)
None == [type |-> "none"]

NoToken == ""

ETH_ADDRESS == "0x0"

TenthNative == 100

HundredthNative == 10

SimpleTransferGas == 21000

Swap(tx_hash, block_number, dex, token_in, token_out, amount_in, amount_out) ==
  [type |-> "swap", tx_hash |-> tx_hash, block_number |-> block_number,
   dex |-> dex, token_in |-> token_in, token_out |-> token_out,
   amount_in |-> amount_in, amount_out |-> amount_out]

HasKey(d, k) == \E i \in 1..Len(d) : d[i].k = k

DictGet(d, k, default) ==
  IF HasKey(d, k) THEN d[CHOOSE i \in 1..Len(d) : d[i].k = k].v ELSE default

DictAdd(d, k, v) ==
  IF HasKey(d, k)
  THEN [i \in 1..Len(d) |-> IF d[i].k = k THEN [k |-> k, v |-> d[i].v + v]
                                          ELSE d[i]]
  ELSE Append(d, [k |-> k, v |-> v])

RECURSIVE Collect(_, _)
Collect(transfers, d) ==
  IF transfers = <<>> THEN d
  ELSE Collect(Tail(transfers),
               DictAdd(d, Head(transfers).contractAddress, Head(transfers).value))

MaxKey(d) ==
  LET i == CHOOSE i \in 1..Len(d) :
             /\ \A j \in 1..Len(d) : d[j].v <= d[i].v
             /\ \A j \in 1..(i - 1) : d[j].v < d[i].v
  IN d[i].k

address_Other(data) == "pool"

address(data) == data.address

erc20_by_hash(data, tx_hash) ==
  SelectSeq(data.erc20_token_transfers, LAMBDA t : t.hash = tx_hash)

normal_txs_by_hash(data, tx_hash) ==
  SelectSeq(data.normal_transactions, LAMBDA t : t.hash = tx_hash)

involves_us(transfers, our) ==
  \E i \in 1..Len(transfers) : transfers[i].from = our \/ transfers[i].to = our

our_transfers(transfers, our) ==
  SelectSeq(transfers, LAMBDA t : t.from = our \/ t.to = our)

tokens_sent(transfers, our) ==
  Collect(SelectSeq(transfers, LAMBDA t : t.from = our), <<>>)

tokens_received(transfers, our) ==
  Collect(SelectSeq(transfers, LAMBDA t : t.from # our /\ t.to = our), <<>>)

coins_received(transfers, our) ==
  Collect(SelectSeq(transfers, LAMBDA t : t.to = our), <<>>)

has_input_data(tx) == tx.input.sig # "" /\ tx.input.args

has_swap_function(tx) == tx.input.sig = "swap"

is_dex_router(tx) == tx.to = "router"

is_contract_interaction(tx, our) == tx.to # "" /\ tx.to # our

is_dex_interaction(tx) ==
  IF is_dex_router(tx) THEN "Uniswap V2"
  ELSE IF has_swap_function(tx) THEN "Unknown DEX"
  ELSE NoToken

DexOr(tx, default) ==
  IF is_dex_interaction(tx) # NoToken THEN is_dex_interaction(tx) ELSE default

SmallIncomingTransfer(tx, our, erc20_transfers) ==
  /\ tx.to = our /\ tx.from # our
  /\ tx.value > 0 /\ tx.value < TenthNative
  /\ ~has_swap_function(tx) /\ ~is_dex_router(tx) /\ Len(erc20_transfers) = 0

eth_received(data, tx_hash, our) ==
  LET mine == SelectSeq(data.internal_transactions,
                        LAMBDA t : t.hash = tx_hash /\ t.to = our)
      S[i \in 0..Len(mine)] == IF i = 0 THEN 0 ELSE S[i - 1] + mine[i].value
  IN S[Len(mine)]

parse_uniswap_v2_swap(data, tx, erc20_transfers) ==
  LET our == address(data)
      ours == our_transfers(erc20_transfers, our)
      sent == tokens_sent(ours, our)
      recv == tokens_received(ours, our)
      token_in == IF sent # <<>> THEN MaxKey(sent) ELSE NoToken
      token_out == IF recv # <<>> THEN MaxKey(recv) ELSE NoToken
      amount_in == DictGet(sent, token_in, 0)
      amount_out == DictGet(recv, token_out, 0)
  IN IF Len(erc20_transfers) < 2 \/ Len(ours) < 2 THEN None
     ELSE IF /\ token_in # NoToken /\ token_out # NoToken
             /\ token_in # token_out /\ amount_in > 0 /\ amount_out > 0
     THEN Swap(tx.hash, tx.blockNumber, DexOr(tx, "Uniswap V2"),
               token_in, token_out, amount_in, amount_out)
     ELSE None

parse_eth_swap(data, tx, erc20_transfers) ==
  LET our == address(data)
      is_eth_in == tx.value > 0 /\ tx.from = our
      recv == coins_received(erc20_transfers, our)
      sent == tokens_sent(erc20_transfers, our)
      received == eth_received(data, tx.hash, our)
  IN IF SmallIncomingTransfer(tx, our, erc20_transfers) THEN None
     ELSE IF is_eth_in /\ recv # <<>>
     THEN IF tx.value < TenthNative THEN None
          ELSE Swap(tx.hash, tx.blockNumber, DexOr(tx, "Unknown DEX"),
                    ETH_ADDRESS, MaxKey(recv), tx.value,
                    DictGet(recv, MaxKey(recv), 0))
     ELSE IF sent # <<>> /\ received > 0
     THEN Swap(tx.hash, tx.blockNumber, DexOr(tx, "Unknown DEX"),
               MaxKey(sent), ETH_ADDRESS, DictGet(sent, MaxKey(sent), 0),
               received)
     ELSE None

GenericLegs(tx, ours, our) ==
  LET sent == tokens_sent(ours, our)
      recv == tokens_received(ours, our)
      token_in == IF sent # <<>> THEN MaxKey(sent) ELSE NoToken
      token_out == IF recv # <<>> THEN MaxKey(recv) ELSE NoToken
      amount_in == DictGet(sent, token_in, 0)
      amount_out == DictGet(recv, token_out, 0)
      native == IF tx.value = 0 THEN 1 ELSE tx.value
      no == [is_swap |-> FALSE]
  IN IF /\ token_in # NoToken /\ token_out # NoToken
        /\ token_in # token_out /\ amount_in > 0 /\ amount_out > 0
     THEN [is_swap |-> TRUE, token_in |-> token_in, token_out |-> token_out,
           amount_in |-> amount_in, amount_out |-> amount_out]
     ELSE IF /\ Len(ours) >= 1 /\ is_contract_interaction(tx, our)
             /\ has_input_data(tx) /\ has_swap_function(tx)
     THEN IF token_in # NoToken /\ amount_in > 0
          THEN [is_swap |-> TRUE, token_in |-> token_in,
                token_out |-> ETH_ADDRESS,
                amount_in |-> amount_in, amount_out |-> native]
          ELSE IF token_out # NoToken /\ amount_out > 0
          THEN [is_swap |-> TRUE, token_in |-> ETH_ADDRESS,
                token_out |-> token_out,
                amount_in |-> native, amount_out |-> amount_out]
          ELSE no
     ELSE no

GenericFallThrough(data, tx, erc20_transfers) ==
  IF /\ Len(erc20_transfers) = 0
     /\ tx.value > 0 /\ tx.value < TenthNative
     /\ ~has_swap_function(tx) /\ ~is_dex_router(tx)
  THEN None
  ELSE IF Len(erc20_transfers) < 2
  THEN parse_eth_swap(data, tx, erc20_transfers)
  ELSE IF parse_uniswap_v2_swap(data, tx, erc20_transfers) # None
  THEN parse_uniswap_v2_swap(data, tx, erc20_transfers)
  ELSE parse_eth_swap(data, tx, erc20_transfers)

parse_generic_swap(data, tx) ==
  LET our == address(data)
      erc20_transfers == erc20_by_hash(data, tx.hash)
      ours == our_transfers(erc20_transfers, our)
      incoming == tx.to = our /\ tx.from # our /\ tx.value > 0
      legs == GenericLegs(tx, ours, our)
  IN IF SmallIncomingTransfer(tx, our, erc20_transfers) THEN None
     ELSE IF /\ incoming /\ tx.gasUsed = SimpleTransferGas
             /\ ~has_input_data(tx) /\ Len(erc20_transfers) = 0
     THEN None
     ELSE IF /\ \/ Len(ours) >= 2
                \/ /\ Len(ours) >= 1 /\ is_contract_interaction(tx, our)
                   /\ has_input_data(tx)
             /\ legs.is_swap
     THEN IF /\ legs.token_in = ETH_ADDRESS
             /\ legs.amount_in < HundredthNative
             /\ legs.token_out \in {NoToken, ETH_ADDRESS}
          THEN None
          ELSE Swap(tx.hash, tx.blockNumber, DexOr(tx, "Unknown DEX"),
                    legs.token_in, legs.token_out,
                    legs.amount_in, legs.amount_out)
     ELSE GenericFallThrough(data, tx, erc20_transfers)

TransfersOnly(data, tx_hash, transfers) ==
  LET our == address(data)
      ours == our_transfers(transfers, our)
      sent == tokens_sent(ours, our)
      recv == tokens_received(ours, our)
      token_in == IF sent # <<>> THEN MaxKey(sent) ELSE NoToken
      token_out == IF recv # <<>> THEN MaxKey(recv) ELSE NoToken
      amount_in == DictGet(sent, token_in, 0)
      amount_out == DictGet(recv, token_out, 0)
      received == eth_received(data, tx_hash, our)
  IN IF /\ Len(ours) = 1 /\ ours[1].from = our
        /\ ours[1].value > 0 /\ received > 0
     THEN Swap(tx_hash, transfers[1].blockNumber, "Unknown DEX",
               ours[1].contractAddress, ETH_ADDRESS, ours[1].value, received)
     ELSE IF /\ Len(ours) >= 2
             /\ token_in # NoToken /\ token_out # NoToken
             /\ token_in # token_out /\ amount_in > 0 /\ amount_out > 0
     THEN Swap(tx_hash, transfers[1].blockNumber, "Unknown DEX",
               token_in, token_out, amount_in, amount_out)
     ELSE None

RECURSIVE InsertByBlock(_, _)
InsertByBlock(sorted, trade) ==
  IF sorted = <<>> THEN <<trade>>
  ELSE IF trade.block_number < Head(sorted).block_number
  THEN <<trade>> \o sorted
  ELSE <<Head(sorted)>> \o InsertByBlock(Tail(sorted), trade)

RECURSIVE SortByBlock(_)
SortByBlock(trades) ==
  IF trades = <<>> THEN <<>>
  ELSE InsertByBlock(SortByBlock(SubSeq(trades, 1, Len(trades) - 1)),
                     trades[Len(trades)])

RECURSIVE HashesOf(_, _)
HashesOf(transfers, seen) ==
  IF transfers = <<>> THEN seen
  ELSE HashesOf(Tail(transfers),
                IF \E i \in 1..Len(seen) : seen[i] = Head(transfers).hash
                THEN seen ELSE Append(seen, Head(transfers).hash))

RECURSIVE NormalPass(_, _, _)
NormalPass(data, txs, st) ==
  IF txs = <<>> THEN st
  ELSE LET tx == Head(txs)
           swap == parse_generic_swap(data, tx)
       IN NormalPass(data, Tail(txs),
            IF /\ tx.hash \notin st.processed_hashes
               /\ (is_dex_interaction(tx) # NoToken \/ has_swap_function(tx))
               /\ swap # None
            THEN [trades |-> Append(st.trades, swap),
                  processed_hashes |-> st.processed_hashes \cup {tx.hash}]
            ELSE st)

TransferPassSwap(data, tx_hash) ==
  LET transfers == erc20_by_hash(data, tx_hash)
      found == normal_txs_by_hash(data, tx_hash)
      tx == found[Len(found)]
  IN IF ~involves_us(transfers, address(data)) THEN None
     ELSE IF found = <<>> THEN TransfersOnly(data, tx_hash, transfers)
     ELSE IF parse_generic_swap(data, tx) # None
     THEN parse_generic_swap(data, tx)
     ELSE parse_eth_swap(data, tx, transfers)

RECURSIVE TransferPass(_, _, _)
TransferPass(data, hashes, st) ==
  IF hashes = <<>> THEN st
  ELSE LET swap == TransferPassSwap(data, Head(hashes))
       IN TransferPass(data, Tail(hashes),
            IF Head(hashes) \notin st.processed_hashes /\ swap # None
            THEN [trades |-> Append(st.trades, swap),
                  processed_hashes |-> st.processed_hashes \cup {Head(hashes)}]
            ELSE st)

ethereum_parse_all_trades(data, trades) ==
  LET st0 == [trades |-> trades, processed_hashes |-> {}]
      st1 == NormalPass(data, data.normal_transactions, st0)
      st2 == TransferPass(data, HashesOf(data.erc20_token_transfers, <<>>), st1)
  IN SortByBlock(st2.trades)

BlockOf(data, tx_hash) ==
  LET found == normal_txs_by_hash(data, tx_hash)
  IN IF found = <<>> THEN 0 ELSE found[Len(found)].blockNumber

sui_parse_swap_from_transfers(data, tx_hash, transfers) ==
  LET our == address(data)
      coins_sent == tokens_sent(transfers, our)
      recv == coins_received(transfers, our)
  IN IF coins_sent = <<>> \/ recv = <<>> THEN None
     ELSE IF /\ MaxKey(coins_sent) # MaxKey(recv)
             /\ DictGet(coins_sent, MaxKey(coins_sent), 0) > 0
             /\ DictGet(recv, MaxKey(recv), 0) > 0
     THEN Swap(tx_hash, BlockOf(data, tx_hash), "Unknown DEX",
               MaxKey(coins_sent), MaxKey(recv),
               DictGet(coins_sent, MaxKey(coins_sent), 0),
               DictGet(recv, MaxKey(recv), 0))
     ELSE None

solana_parse_swap_from_transfers(data, tx_hash, transfers) ==
  LET our == address(data)
      ours == our_transfers(transfers, our)
      sent == tokens_sent(ours, our)
      recv == tokens_received(ours, our)
      token_in == IF sent # <<>> THEN MaxKey(sent) ELSE NoToken
      token_out == IF recv # <<>> THEN MaxKey(recv) ELSE NoToken
      amount_in == DictGet(sent, token_in, 0)
      amount_out == DictGet(recv, token_out, 0)
  IN IF Len(ours) < 2 THEN None
     ELSE IF /\ token_in # NoToken /\ token_out # NoToken
             /\ token_in # token_out /\ amount_in > 0 /\ amount_out > 0
     THEN Swap(tx_hash, BlockOf(data, tx_hash), "Unknown DEX",
               token_in, token_out, amount_in, amount_out)
     ELSE None

RECURSIVE SuiPass(_, _, _)
SuiPass(data, hashes, trades) ==
  IF hashes = <<>> THEN trades
  ELSE LET transfers == erc20_by_hash(data, Head(hashes))
           swap == sui_parse_swap_from_transfers(data, Head(hashes), transfers)
       IN SuiPass(data, Tail(hashes),
            IF /\ involves_us(transfers, address(data))
               /\ Len(transfers) >= 1 /\ swap # None
            THEN Append(trades, swap) ELSE trades)

sui_parse_all_trades(data, trades) ==
  SortByBlock(SuiPass(data, HashesOf(data.erc20_token_transfers, <<>>), trades))

RECURSIVE SolanaPass(_, _, _)
SolanaPass(data, hashes, trades) ==
  IF hashes = <<>> THEN trades
  ELSE LET transfers == erc20_by_hash(data, Head(hashes))
           swap == solana_parse_swap_from_transfers(data, Head(hashes), transfers)
       IN SolanaPass(data, Tail(hashes),
            IF /\ involves_us(transfers, address(data))
               /\ Len(transfers) >= 2 /\ swap # None
            THEN Append(trades, swap) ELSE trades)

solana_parse_all_trades(data, trades) ==
  SortByBlock(SolanaPass(data, HashesOf(data.erc20_token_transfers, <<>>), trades))

(***************************************************************************)
(* Transaction data handed to a parser: one transaction hash, with or      *)
(* without its normal transaction, up to two token transfers and at most   *)
(* one internal native transfer.                                           *)
(***************************************************************************)
MaxTrades == 2

Input(sig, args) == [sig |-> sig, args |-> args]

InputSet ==
  {Input("", FALSE), Input("swap", FALSE), Input("swap", TRUE),
   Input("other", TRUE)}

Tx(from, to, value, input, gasUsed) ==
  [hash |-> "0xh1", blockNumber |-> 1, from |-> from, to |-> to,
   value |-> value, input |-> input, gasUsed |-> gasUsed]

TxSet ==
  {Tx(f, t, v, i, 50000) :
     f \in {"our", "pool"}, t \in {"our", "router", "pool"},
     v \in {0, 5, 100}, i \in InputSet}
  \cup {Tx("pool", "our", v, Input("", FALSE), SimpleTransferGas) : v \in {5, 100}}

Transfer(from, to, contractAddress, value) ==
  [hash |-> "0xh1", blockNumber |-> 1, from |-> from, to |-> to,
   contractAddress |-> contractAddress, value |-> value]

TransferSet ==
  {Transfer(d[1], d[2], c, v) :
     d \in {<<"our", "pool">>, <<"pool", "our">>, <<"our", "our">>,
            <<"pool", "router">>, <<"router", "pool">>},
     c \in {"X", "Y"}, v \in {0, 7}}

TransferLists ==
  {<<>>} \cup {<<t>> : t \in TransferSet}
         \cup {<<t, u>> : t \in TransferSet, u \in TransferSet}

InternalSet ==
  {<<>>, <<[hash |-> "0xh1", to |-> "our", value |-> 5]>>}

ParserData(chain, normal, transfers, internal) ==
  [chain |-> chain, address |-> "our", normal_transactions |-> normal,
   erc20_token_transfers |-> transfers, internal_transactions |-> internal]

DataSet ==
  {ParserData("ethereum", n, t, i) :
     n \in {<<>>} \cup {<<tx>> : tx \in TxSet},
     t \in TransferLists, i \in InternalSet}
  \cup
  {ParserData(c, n, t, <<>>) :
     c \in {"sui", "solana"},
     n \in {<<>>, <<Tx("our", "pool", 0, Input("other", TRUE), 50000)>>},
     t \in TransferLists}

InitParse ==
  /\ InitCalc
  /\ MainIdle
  /\ PriceIdle
  /\ pos = 0
  /\ pc = "parse"
  /\ parser_data \in DataSet
  /\ parser_trades = <<>>
  /\ parser_last = [op |-> "none"]

\* The per-token totals a classifier call computes, recorded with the call:
\* done is FALSE when the call returns before it aggregates.
NotAggregated == [done |-> FALSE, sent |-> <<>>, received |-> <<>>]

GenericAggregates(data, tx) ==
  LET our == address(data)
      erc20_transfers == erc20_by_hash(data, tx.hash)
      ours == our_transfers(erc20_transfers, our)
  IN IF SmallIncomingTransfer(tx, our, erc20_transfers) THEN NotAggregated
     ELSE IF /\ tx.to = our /\ tx.from # our /\ tx.value > 0
             /\ tx.gasUsed = SimpleTransferGas
             /\ ~has_input_data(tx) /\ Len(erc20_transfers) = 0
     THEN NotAggregated
     ELSE IF \/ Len(ours) >= 2
             \/ /\ Len(ours) >= 1 /\ is_contract_interaction(tx, our)
                /\ has_input_data(tx)
     THEN [done |-> TRUE, sent |-> tokens_sent(ours, our),
           received |-> tokens_received(ours, our)]
     ELSE NotAggregated

SuiAggregates(data, tx_hash) ==
  [done |-> TRUE,
   sent |-> tokens_sent(erc20_by_hash(data, tx_hash), address(data)),
   received |-> coins_received(erc20_by_hash(data, tx_hash), address(data))]

SolanaAggregates(data, tx_hash) ==
  LET ours == our_transfers(erc20_by_hash(data, tx_hash), address(data))
  IN IF Len(ours) < 2 THEN NotAggregated
     ELSE [done |-> TRUE, sent |-> tokens_sent(ours, address(data)),
           received |-> tokens_received(ours, address(data))]

EthereumParseGenericSwap ==
  /\ pc = "parse"
  /\ parser_data.chain = "ethereum"
  /\ \E i \in 1..Len(parser_data.normal_transactions) :
       LET tx == parser_data.normal_transactions[i] IN
       parser_last' = [op |-> "classify", tx_hash |-> tx.hash,
                       result |-> parse_generic_swap(parser_data, tx),
                       aggregates |-> GenericAggregates(parser_data, tx)]
  /\ UNCHANGED <<calcVars, pos, pc, mainVars, priceVars, parser_data, parser_trades>>

SuiParseSwapFromTransfers ==
  /\ pc = "parse"
  /\ parser_data.chain = "sui"
  /\ parser_last' =
       [op |-> "classify", tx_hash |-> "0xh1",
        result |-> sui_parse_swap_from_transfers(parser_data, "0xh1",
                     erc20_by_hash(parser_data, "0xh1")),
        aggregates |-> SuiAggregates(parser_data, "0xh1")]
  /\ UNCHANGED <<calcVars, pos, pc, mainVars, priceVars, parser_data, parser_trades>>

SolanaParseSwapFromTransfers ==
  /\ pc = "parse"
  /\ parser_data.chain = "solana"
  /\ parser_last' =
       [op |-> "classify", tx_hash |-> "0xh1",
        result |-> solana_parse_swap_from_transfers(parser_data, "0xh1",
                     erc20_by_hash(parser_data, "0xh1")),
        aggregates |-> SolanaAggregates(parser_data, "0xh1")]
  /\ UNCHANGED <<calcVars, pos, pc, mainVars, priceVars, parser_data, parser_trades>>

EthereumParseAllTrades ==
  /\ pc = "parse"
  /\ parser_data.chain = "ethereum"
  /\ Len(parser_trades) < MaxTrades
  /\ parser_trades' = ethereum_parse_all_trades(parser_data, parser_trades)
  /\ UNCHANGED <<calcVars, pos, pc, mainVars, priceVars, parser_data, parser_last>>

SuiParseAllTrades ==
  /\ pc = "parse"
  /\ parser_data.chain = "sui"
  /\ Len(parser_trades) < MaxTrades
  /\ parser_trades' = sui_parse_all_trades(parser_data, parser_trades)
  /\ UNCHANGED <<calcVars, pos, pc, mainVars, priceVars, parser_data, parser_last>>

SolanaParseAllTrades ==
  /\ pc = "parse"
  /\ parser_data.chain = "solana"
  /\ Len(parser_trades) < MaxTrades
  /\ parser_trades' = solana_parse_all_trades(parser_data, parser_trades)
  /\ UNCHANGED <<calcVars, pos, pc, mainVars, priceVars, parser_data, parser_last>>

NextParse ==
  \/ EthereumParseGenericSwap
  \/ SuiParseSwapFromTransfers
  \/ SolanaParseSwapFromTransfers
  \/ EthereumParseAllTrades
  \/ SuiParseAllTrades
  \/ SolanaParseAllTrades

SpecParse == InitParse /\ [][NextParse]_vars

(***************************************************************************)
(* calculate_prices.py: the price resolver (PriceFeedBuilder) and the      *)
(* batch loop add_prices_to_trades, fed by the amounts that                *)
(* enrich_trades_with_tokens.py formats.                                   *)
(*                                                                         *)
(* A float is modelled as an exact rational wrapped in a record, so that   *)
(* it can be told from None; the amounts and prices of the bounded model   *)
(* are short decimals, for which the float operations used here are exact  *)
(* up to the last binary digit.  A formatted amount is the text Python     *)
(* produces: the digits before and after the decimal point.                *)
(***************************************************************************)
MaxBatch == 2

Float(v) == [type |-> "float", v |-> v]
Truthy(p) == IF p.type = "float" THEN p.v[1] # 0 ELSE FALSE

STABLECOINS == {"USDC", "USDT", "DAI", "BUSD", "USDP", "TUSD", "USDD", "FRAX", "LUSD", "USD3", "NUSD", "AUSD", "USN"}
PROTOCOL_STABLECOINS == {"aEthUSDC", "aUSDC", "reUSDC", "fUSDC", "csUSDC", "hyperUSDC", "syrupUSDC", "aEthUSDT", "syrupUSDT", "stcUSD", "siUSD", "cUSD", "reUSDe", "iUSD"}

\* str.upper() on the symbols of the model: USDC, ETH, WBTC, TOK, aUSDC.
Upper(symbol) == IF symbol = "aUSDC" THEN "AUSDC" ELSE symbol

is_stablecoin(symbol) == Upper(symbol) \in STABLECOINS
is_protocol_stablecoin(symbol) == symbol \in PROTOCOL_STABLECOINS

RECURSIVE Pow10(_)
Pow10(k) == IF k = 0 THEN 1 ELSE 10 * Pow10(k - 1)

RECURSIVE Digits(_)
Digits(n) == IF n < 10 THEN <<n>> ELSE Append(Digits(n \div 10), n % 10)

RECURSIVE PadDigits(_, _)
PadDigits(n, width) ==
  IF width = 0 THEN <<>> ELSE Append(PadDigits(n \div 10, width - 1), n % 10)

RECURSIVE RStripZeros(_)
RStripZeros(digits) ==
  IF digits = <<>> THEN <<>>
  ELSE IF digits[Len(digits)] = 0
       THEN RStripZeros(SubSeq(digits, 1, Len(digits) - 1))
       ELSE digits

\* f"{amount / 10 ** decimals:.{min(decimals, 8)}f}".rstrip('0').rstrip('.')
\* At most eight decimal places are printed, the rest is rounded away (the
\* amounts of the model are never half-way).  With no decimals the text has
\* no point, and rstrip('0') eats the trailing zeros of the integer itself;
\* with decimals it stops at the point.
RoundDiv(a, b) == (2 * a + b) \div (2 * b)

format_amount(amount, decimals) ==
  LET places == IF decimals < 8 THEN decimals ELSE 8
      scaled == IF decimals > 8 THEN RoundDiv(amount, Pow10(decimals - 8)) ELSE amount
      int == Digits(scaled \div Pow10(places))
      frac == PadDigits(scaled % Pow10(places), places)
  IN  IF places = 0
      THEN [int |-> RStripZeros(int), frac |-> <<>>]
      ELSE [int |-> int, frac |-> RStripZeros(frac)]

RECURSIVE DigitsValue(_)
DigitsValue(digits) ==
  IF digits = <<>> THEN 0
  ELSE 10 * DigitsValue(SubSeq(digits, 1, Len(digits) - 1)) + digits[Len(digits)]

\* float(text): the empty text raises ValueError.
FloatRaises(text) == text.int = <<>> /\ text.frac = <<>>
FloatOf(text) ==
  Norm(DigitsValue(text.int) * Pow10(Len(text.frac)) + DigitsValue(text.frac),
       Pow10(Len(text.frac)))

\* An enriched trade as add_prices_to_trades loads it.  The address of the
\* metadata is already lower case (enrich_trades lower-cases it), so the
\* resolver's .lower() leaves it as it is.
EnrichedTrade(sym_in, addr_in, amount_in, dec_in, sym_out, addr_out, amount_out, dec_out, timestamp) ==
  [source_symbol |-> sym_in, token_in_addr |-> addr_in,
   amount_in_formatted |-> format_amount(amount_in, dec_in),
   target_symbol |-> sym_out, token_out_addr |-> addr_out,
   amount_out_formatted |-> format_amount(amount_out, dec_out),
   timestamp |-> timestamp,
   source_price_usd |-> [type |-> "unset"], target_price_usd |-> [type |-> "unset"],
   price_source |-> "unset"]

\* Lines 51-52 of calculate_price_from_trade raise before anything else is
\* looked at.
TradeRaises(trade) ==
  FloatRaises(trade.amount_in_formatted) \/ FloatRaises(trade.amount_out_formatted)

source_amount(trade) == FloatOf(trade.amount_in_formatted)
target_amount(trade) == FloatOf(trade.amount_out_formatted)
Positive(x) == x[1] > 0

\* calculate_price_from_trade: <<source_price, target_price>>.  The symbols
\* are upper-cased before both tests, so no mixed-case protocol stablecoin is
\* ever recognised by the third and fourth branch.
calculate_price_from_trade(trade) ==
  LET source_symbol == Upper(trade.source_symbol)
      target_symbol == Upper(trade.target_symbol)
      sa == source_amount(trade)
      ta == target_amount(trade)
  IN  IF sa[1] = 0 \/ ta[1] = 0 THEN <<None, None>>
      ELSE IF is_stablecoin(source_symbol)
           THEN <<Float(Dec(1)), IF Positive(ta) THEN Float(RDiv(sa, ta)) ELSE None>>
      ELSE IF is_stablecoin(target_symbol)
           THEN <<IF Positive(sa) THEN Float(RDiv(ta, sa)) ELSE None, Float(Dec(1))>>
      ELSE IF is_protocol_stablecoin(source_symbol)
           THEN <<Float(Dec(1)), IF Positive(ta) THEN Float(RDiv(sa, ta)) ELSE None>>
      ELSE IF is_protocol_stablecoin(target_symbol)
           THEN <<IF Positive(sa) THEN Float(RDiv(ta, sa)) ELSE None, Float(Dec(1))>>
      ELSE <<None, None>>

\* The external source: what one HTTP request to the quote API can come to.
QuoteOutcomes ==
  {[kind |-> "price", v |-> Dec(p)] : p \in {2000, 3000}}
  \cup {[kind |-> k, v |-> Dec(0)] : k \in {"not_found", "rate_limited", "timeout", "transport_error"}}

\* The keys of symbol_to_id.
CoinGeckoSymbols == {"ETH", "WETH", "WBTC", "BTC", "COMP", "AAVE", "UNI", "LINK", "CRV", "SUSHI", "MKR", "SNX", "YFI"}
HasCoinGeckoId(symbol) == Upper(symbol) \in CoinGeckoSymbols

\* strftime of the timestamp: the calendar day.
DateOf(timestamp) == timestamp \div 86400

\* get_coingecko_price: a request is sent only for a mapped symbol; status
\* 200 with market data gives the price, and every other answer, and every
\* exception, gives None.
get_coingecko_price(symbol, timestamp, outcome) ==
  IF ~HasCoinGeckoId(symbol) THEN None
  ELSE IF outcome.kind = "price" THEN Float(outcome.v)
  ELSE None

\* The requests get_coingecko_price sends: none for an unmapped symbol.
QuoteCalls(symbol, timestamp, outcome) ==
  IF HasCoinGeckoId(symbol)
  THEN <<[symbol |-> Upper(symbol), date |-> DateOf(timestamp), outcome |-> outcome]>>
  ELSE <<>>

\* extract_underlying_asset on the symbols of the model: only "aUSDC" starts
\* with one of the prefixes PT-, aEth, a, f.
NoSymbol == ""
extract_underlying_asset(protocol_token) ==
  IF protocol_token = "aUSDC" THEN "USDC" ELSE NoSymbol

(***************************************************************************)
(* The price feed: price_feed maps a token address to the list of          *)
(* <<timestamp, price>> stored for it, symbol_to_addresses maps an upper   *)
(* case symbol to the set of addresses seen for it.                        *)
(***************************************************************************)
\* The accumulators of find_price_in_feed; a negative bound stands for
\* float('inf').
Below(x, bound) == IF bound < 0 THEN TRUE ELSE x < bound

NoBest == [best_price |-> None, min_diff |-> -1, best_price_within_window |-> None, min_diff_within_window |-> -1]

\* One pass of the inner loop of find_price_in_feed over a list of prices.
RECURSIVE ScanPrices(_, _, _, _, _)
ScanPrices(prices, k, target_timestamp, max_hours, acc) ==
  IF k > Len(prices) THEN acc
  ELSE LET price_timestamp == prices[k][1]
           price == prices[k][2]
           time_diff == Abs(price_timestamp - target_timestamp)
           within == time_diff <= max_hours * 3600 /\ Below(time_diff, acc.min_diff_within_window)
           closer == Below(time_diff, acc.min_diff)
           acc1 == IF within THEN [acc EXCEPT !.min_diff_within_window = time_diff, !.best_price_within_window = price] ELSE acc
           acc2 == IF closer THEN [acc1 EXCEPT !.min_diff = time_diff, !.best_price = price] ELSE acc1
       IN  ScanPrices(prices, k + 1, target_timestamp, max_hours, acc2)

\* The order in which Python walks a set of addresses; it decides the result
\* only when two addresses of one symbol hold equally close prices.
RECURSIVE SeqOfSet(_)
SeqOfSet(S) ==
  IF S = {} THEN <<>>
  ELSE LET x == CHOOSE y \in S : TRUE IN <<x>> \o SeqOfSet(S \ {x})

RECURSIVE ScanAddresses(_, _, _, _, _, _)
ScanAddresses(feed, addrs, k, target_timestamp, max_hours, acc) ==
  IF k > Len(addrs) THEN acc
  ELSE LET acc1 == IF addrs[k] \in DOMAIN feed
                   THEN ScanPrices(feed[addrs[k]], 1, target_timestamp, max_hours, acc)
                   ELSE acc
       IN  ScanAddresses(feed, addrs, k + 1, target_timestamp, max_hours, acc1)

NoAddress == ""
MaxHours == 720

FindBySymbol(feed, s2a, token_symbol, target_timestamp, max_hours) ==
  IF token_symbol # NoSymbol /\ Upper(token_symbol) \in DOMAIN s2a
  THEN LET acc == ScanAddresses(feed, SeqOfSet(s2a[Upper(token_symbol)]), 1, target_timestamp, max_hours, NoBest)
       IN  IF Truthy(acc.best_price_within_window) THEN acc.best_price_within_window
           ELSE IF Truthy(acc.best_price) THEN acc.best_price
           ELSE None
  ELSE None

\* Faulty variant: a price outside the window is not used.
find_price_in_feed_WindowOnly(feed, s2a, token_address, token_symbol, target_timestamp, max_hours) ==
  LET by_address == token_address # NoAddress /\ token_address \in DOMAIN feed
      acc == IF by_address
             THEN ScanPrices(feed[token_address], 1, target_timestamp, max_hours, NoBest)
             ELSE NoBest
  IN  IF Truthy(acc.best_price_within_window) THEN acc.best_price_within_window
      ELSE FindBySymbol(feed, s2a, NoSymbol, target_timestamp, max_hours)

\* find_price_in_feed: by address first, then by symbol; the closest price
\* within the window, else the closest price of all.
find_price_in_feed(feed, s2a, token_address, token_symbol, target_timestamp, max_hours) ==
  LET by_address == token_address # NoAddress /\ token_address \in DOMAIN feed
      acc == IF by_address
             THEN ScanPrices(feed[token_address], 1, target_timestamp, max_hours, NoBest)
             ELSE NoBest
  IN  IF Truthy(acc.best_price_within_window) THEN acc.best_price_within_window
      ELSE IF Truthy(acc.best_price) THEN acc.best_price
      ELSE FindBySymbol(feed, s2a, token_symbol, target_timestamp, max_hours)

\* price_feed[addr].append((timestamp, price)) and the symbol mapping.
AppendPrice(feed, addr, timestamp, price) ==
  [a \in DOMAIN feed \cup {addr} |->
     IF a = addr
     THEN (IF addr \in DOMAIN feed THEN feed[addr] ELSE <<>>) \o <<(<<timestamp, price>>)>>
     ELSE feed[a]]

AddAddress(s2a, symbol, addr) ==
  IF symbol = NoSymbol THEN s2a
  ELSE [s \in DOMAIN s2a \cup {symbol} |->
          IF s = symbol
          THEN (IF symbol \in DOMAIN s2a THEN s2a[symbol] ELSE {}) \cup {addr}
          ELSE s2a[s]]

Builder(feed, s2a) == [price_feed |-> feed, symbol_to_addresses |-> s2a]

StorePrice(b, addr, symbol, timestamp, price) ==
  Builder(AppendPrice(b.price_feed, addr, timestamp, price), AddAddress(b.symbol_to_addresses, Upper(symbol), addr))

\* sorted(trades, key=timestamp): the positions of the batch in the order of
\* a stable sort.
RECURSIVE InsertByTimestamp(_, _, _)
InsertByTimestamp(trades, order, i) ==
  IF order = <<>> THEN <<i>>
  ELSE IF trades[i].timestamp < trades[order[Len(order)]].timestamp
       THEN Append(InsertByTimestamp(trades, SubSeq(order, 1, Len(order) - 1), i), order[Len(order)])
       ELSE Append(order, i)

RECURSIVE SortedOrder(_, _)
SortedOrder(trades, k) ==
  IF k = 0 THEN <<>> ELSE InsertByTimestamp(trades, SortedOrder(trades, k - 1), k)

sorted_trades(trades) == SortedOrder(trades, Len(trades))

\* build_price_feed: the stablecoin prices of every trade of the batch, in
\* chronological order.  It stores under the address whatever it is.
RECURSIVE BuildFrom(_, _, _, _)
BuildFrom(trades, order, k, b) ==
  IF k > Len(order) THEN b
  ELSE LET trade == trades[order[k]]
           p == calculate_price_from_trade(trade)
           b1 == IF Truthy(p[1]) THEN StorePrice(b, trade.token_in_addr, trade.source_symbol, trade.timestamp, p[1]) ELSE b
           b2 == IF Truthy(p[2]) THEN StorePrice(b1, trade.token_out_addr, trade.target_symbol, trade.timestamp, p[2]) ELSE b1
       IN  BuildFrom(trades, order, k + 1, b2)

build_price_feed(trades) == BuildFrom(trades, sorted_trades(trades), 1, Builder(<<>>, <<>>))

(***************************************************************************)
(* calculate_prices_for_trade.  The two requests Strategy 3 may send have  *)
(* the outcomes o_source and o_target.  The result carries, next to the    *)
(* returned triple, the requests that were sent and the prices the         *)
(* strategies had found when the function returned.                        *)
(***************************************************************************)
\* total_value_usd = known_price * known_amount; other = total / other_amount
RatioPrice_Inverted(known_price, known_amount, other_amount) == Float(RDiv(RMul(known_price.v, other_amount), known_amount))

RatioPrice(known_price, known_amount, other_amount) == Float(RDiv(RMul(known_price.v, known_amount), other_amount))

Resolution(source_price, target_price, price_source, calls, found_source, found_target) ==
  [source_price |-> source_price, target_price |-> target_price,
   price_source |-> price_source, calls |-> calls,
   found_source |-> found_source, found_target |-> found_target]

\* Faulty variant: the final return hands back whatever price was found.
LastStrategies_KeepFound(trade, sp, tp, calls) ==
  LET sa == source_amount(trade)
      ta == target_amount(trade)
  IN  IF Truthy(sp) /\ Positive(sa) /\ Positive(ta)
      THEN Resolution(sp, RatioPrice(sp, sa, ta), "calculated", calls, sp, tp)
      ELSE IF Truthy(tp) /\ Positive(sa) /\ Positive(ta)
      THEN Resolution(RatioPrice(tp, ta, sa), tp, "calculated", calls, sp, tp)
      ELSE Resolution(sp, tp, "unavailable", calls, sp, tp)

\* Strategy 5 and the final return.
LastStrategies(trade, sp, tp, calls) ==
  LET sa == source_amount(trade)
      ta == target_amount(trade)
  IN  IF Truthy(sp) /\ Positive(sa) /\ Positive(ta)
      THEN Resolution(sp, RatioPrice(sp, sa, ta), "calculated", calls, sp, tp)
      ELSE IF Truthy(tp) /\ Positive(sa) /\ Positive(ta)
      THEN Resolution(RatioPrice(tp, ta, sa), tp, "calculated", calls, sp, tp)
      ELSE Resolution(None, None, "unavailable", calls, sp, tp)

\* Strategy 4, the target leg.
UnderlyingTarget(trade, b, sp, tp, calls) ==
  LET sa == source_amount(trade)
      ta == target_amount(trade)
      underlying_target == extract_underlying_asset(trade.target_symbol)
      underlying_price == find_price_in_feed(b.price_feed, b.symbol_to_addresses, NoAddress, underlying_target, trade.timestamp, MaxHours)
  IN  IF ~Truthy(tp) /\ underlying_target # NoSymbol /\ Truthy(underlying_price) /\ Positive(sa) /\ Positive(ta)
      THEN IF Truthy(sp)
           THEN Resolution(sp, Float(RMul(sp.v, RDiv(sa, ta))), "derived", calls, sp, tp)
           ELSE Resolution(underlying_price, Float(RMul(underlying_price.v, RDiv(sa, ta))), "derived", calls, sp, tp)
      ELSE LastStrategies(trade, sp, tp, calls)

\* Strategy 4, the source leg.
UnderlyingSource(trade, b, sp, tp, calls) ==
  LET sa == source_amount(trade)
      ta == target_amount(trade)
      underlying_source == extract_underlying_asset(trade.source_symbol)
      underlying_price == find_price_in_feed(b.price_feed, b.symbol_to_addresses, NoAddress, underlying_source, trade.timestamp, MaxHours)
  IN  IF ~Truthy(sp) /\ underlying_source # NoSymbol /\ Truthy(underlying_price) /\ Positive(sa) /\ Positive(ta)
      THEN IF Truthy(tp)
           THEN Resolution(Float(RMul(tp.v, RDiv(ta, sa))), tp, "derived", calls, sp, tp)
           ELSE Resolution(Float(RMul(underlying_price.v, RDiv(ta, sa))), underlying_price, "derived", calls, sp, tp)
      ELSE UnderlyingTarget(trade, b, sp, tp, calls)

\* Strategies 3 and 3b.
CoinGecko(trade, b, sp, tp, o_source, o_target) ==
  LET sa == source_amount(trade)
      ta == target_amount(trade)
      sp3 == IF ~Truthy(sp) THEN get_coingecko_price(trade.source_symbol, trade.timestamp, o_source) ELSE sp
      tp3 == IF ~Truthy(tp) THEN get_coingecko_price(trade.target_symbol, trade.timestamp, o_target) ELSE tp
      calls == (IF ~Truthy(sp) THEN QuoteCalls(trade.source_symbol, trade.timestamp, o_source) ELSE <<>>)
               \o (IF ~Truthy(tp) THEN QuoteCalls(trade.target_symbol, trade.timestamp, o_target) ELSE <<>>)
  IN  IF Truthy(sp3) /\ Truthy(tp3)
      THEN Resolution(sp3, tp3, "coingecko", calls, sp3, tp3)
      ELSE IF Truthy(sp3) /\ ~Truthy(tp3) /\ Positive(sa) /\ Positive(ta)
      THEN Resolution(sp3, RatioPrice(sp3, sa, ta), "calculated_from_coingecko", calls, sp3, tp3)
      ELSE IF Truthy(tp3) /\ ~Truthy(sp3) /\ Positive(sa) /\ Positive(ta)
      THEN Resolution(RatioPrice(tp3, ta, sa), tp3, "calculated_from_coingecko", calls, sp3, tp3)
      ELSE UnderlyingSource(trade, b, sp3, tp3, calls)

\* Strategies 2 and 2b.
Feed(trade, b, sp, tp, o_source, o_target) ==
  LET sa == source_amount(trade)
      ta == target_amount(trade)
      sp2 == IF ~Truthy(sp) THEN find_price_in_feed(b.price_feed, b.symbol_to_addresses, trade.token_in_addr, trade.source_symbol, trade.timestamp, MaxHours) ELSE sp
      tp2 == IF ~Truthy(tp) THEN find_price_in_feed(b.price_feed, b.symbol_to_addresses, trade.token_out_addr, trade.target_symbol, trade.timestamp, MaxHours) ELSE tp
  IN  IF Truthy(sp2) /\ Truthy(tp2)
      THEN Resolution(sp2, tp2, "feed", <<>>, sp2, tp2)
      ELSE IF Truthy(sp2) /\ ~Truthy(tp2) /\ Positive(sa) /\ Positive(ta)
      THEN Resolution(sp2, RatioPrice(sp2, sa, ta), "calculated_from_feed", <<>>, sp2, tp2)
      ELSE IF Truthy(tp2) /\ ~Truthy(sp2) /\ Positive(sa) /\ Positive(ta)
      THEN Resolution(RatioPrice(tp2, ta, sa), tp2, "calculated_from_feed", <<>>, sp2, tp2)
      ELSE CoinGecko(trade, b, sp2, tp2, o_source, o_target)

calculate_prices_for_trade(trade, b, o_source, o_target) ==
  LET p == calculate_price_from_trade(trade)
  IN  IF Truthy(p[1]) /\ Truthy(p[2])
      THEN Resolution(p[1], p[2], "stablecoin", <<>>, p[1], p[2])
      ELSE Feed(trade, b, p[1], p[2], o_source, o_target)

\* The loop body of add_prices_to_trades after the resolver has returned:
\* a price is stored only under a non-empty address.
StoreResolved(b, trade, r) ==
  LET b1 == IF Truthy(r.source_price) /\ trade.token_in_addr # NoAddress
            THEN StorePrice(b, trade.token_in_addr, trade.source_symbol, trade.timestamp, r.source_price) ELSE b
      b2 == IF Truthy(r.target_price) /\ trade.token_out_addr # NoAddress
            THEN StorePrice(b1, trade.token_out_addr, trade.target_symbol, trade.timestamp, r.target_price) ELSE b1
  IN  b2

SetPrices(trade, r) ==
  [trade EXCEPT !.source_price_usd = r.source_price, !.target_price_usd = r.target_price, !.price_source = r.price_source]

\* The keys of the requests that were answered with a price.
Quoted(calls) ==
  {<<calls[i].symbol, calls[i].date>> : i \in {j \in DOMAIN calls : calls[j].outcome.kind = "price"}}

(***************************************************************************)
(* The batches of the model.  Amounts are in the smallest unit of a token  *)
(* with the given number of decimals: 20 with none is "2", 5 with one is   *)
(* "0.5", 1 with nine is "0" and 0 with none is the empty text.            *)
(* Two trades are dated 31 days after the others, outside the window of    *)
(* find_price_in_feed.                                                     *)
(***************************************************************************)
AddressOf(symbol) == IF symbol = "USDC" THEN "0xusdc" ELSE IF symbol = "ETH" THEN "0xeth" ELSE IF symbol = "WBTC" THEN "0xwbtc" ELSE IF symbol = "TOK" THEN "0xtok" ELSE "0xausdc"

PricedTrade(pair, amount_in, dec_in, amount_out, dec_out, timestamp) ==
  EnrichedTrade(pair[1], AddressOf(pair[1]), amount_in, dec_in, pair[2], AddressOf(pair[2]), amount_out, dec_out, timestamp)

SymbolPairs == {<<"USDC", "ETH">>, <<"ETH", "TOK">>, <<"TOK", "ETH">>, <<"aUSDC", "TOK">>, <<"ETH", "WBTC">>}
TimestampSet == {0, 86400}

EnrichedTradeSet ==
  {PricedTrade(pair, 20, 0, 5, 1, ts) : pair \in SymbolPairs, ts \in TimestampSet}
  \cup {PricedTrade(<<"ETH", "TOK">>, 1, 9, 20, 0, 0), PricedTrade(<<"ETH", "TOK">>, 20, 0, 1, 9, 0)}
  \cup {PricedTrade(<<"ETH", "TOK">>, 0, 0, 20, 0, 0)}
  \cup {PricedTrade(<<"USDC", "ETH">>, 20, 0, 20, 0, 31 * 86400), PricedTrade(<<"ETH", "TOK">>, 20, 0, 5, 1, 31 * 86400)}

BatchSet == UNION {[1..n -> EnrichedTradeSet] : n \in 0..MaxBatch}

NoResolution ==
  [op |-> "none", trade |-> 0, source_price |-> None, target_price |-> None,
   price_source |-> "unset", calls |-> <<>>, found_source |-> None,
   found_target |-> None, quoted_before |-> {}]

InitPrice ==
  /\ InitCalc
  /\ MainIdle
  /\ ParserIdle
  /\ pos = 0
  /\ pc = "price_build"
  /\ price_trades \in BatchSet
  /\ price_feed = <<>>
  /\ symbol_to_addresses = <<>>
  /\ price_i = 0
  /\ quoted = {}
  /\ price_last = NoResolution

\* add_prices_to_trades with an empty batch returns at once.
NoTradesToPrice ==
  /\ pc = "price_build"
  /\ price_trades = <<>>
  /\ pc' = "price_done"
  /\ UNCHANGED <<calcVars, pos, mainVars, parseVars, priceVars>>

\* build_price_feed over the whole batch.
BuildPriceFeed ==
  /\ pc = "price_build"
  /\ price_trades # <<>>
  /\ \A i \in DOMAIN price_trades : ~TradeRaises(price_trades[i])
  /\ \E b \in {build_price_feed(price_trades)} :
       /\ price_feed' = b.price_feed
       /\ symbol_to_addresses' = b.symbol_to_addresses
  /\ price_i' = 1
  /\ pc' = "price_loop"
  /\ UNCHANGED <<calcVars, pos, mainVars, parseVars, price_trades, quoted, price_last>>

\* build_price_feed reaches a trade whose amount text float() rejects: the
\* ValueError leaves add_prices_to_trades, nothing is written.
BuildPriceFeedRaises ==
  /\ pc = "price_build"
  /\ \E i \in DOMAIN price_trades : TradeRaises(price_trades[i])
  /\ pc' = "price_raised"
  /\ UNCHANGED <<calcVars, pos, mainVars, parseVars, priceVars>>

\* One turn of the loop over sorted_trades.
PriceTrade ==
  /\ pc = "price_loop"
  /\ price_i <= Len(price_trades)
  /\ \E k \in {sorted_trades(price_trades)[price_i]} :
     \E o_source \in QuoteOutcomes, o_target \in QuoteOutcomes :
     \E r \in {calculate_prices_for_trade(price_trades[k], Builder(price_feed, symbol_to_addresses), o_source, o_target)} :
     \E b1 \in {StoreResolved(Builder(price_feed, symbol_to_addresses), price_trades[k], r)} :
       /\ price_trades' = [price_trades EXCEPT ![k] = SetPrices(price_trades[k], r)]
       /\ price_feed' = b1.price_feed
       /\ symbol_to_addresses' = b1.symbol_to_addresses
       /\ quoted' = quoted \cup Quoted(r.calls)
       /\ price_last' = [op |-> "resolve", trade |-> k,
                         source_price |-> r.source_price,
                         target_price |-> r.target_price,
                         price_source |-> r.price_source,
                         calls |-> r.calls,
                         found_source |-> r.found_source,
                         found_target |-> r.found_target,
                         quoted_before |-> quoted]
  /\ price_i' = price_i + 1
  /\ UNCHANGED <<calcVars, pos, pc, mainVars, parseVars>>

\* json.dump of the priced batch.
SavePrices ==
  /\ pc = "price_loop"
  /\ price_i > Len(price_trades)
  /\ pc' = "price_done"
  /\ UNCHANGED <<calcVars, pos, mainVars, parseVars, priceVars>>

NextPrice ==
  \/ NoTradesToPrice
  \/ BuildPriceFeed
  \/ BuildPriceFeedRaises
  \/ PriceTrade
  \/ SavePrices

SpecPrice == InitPrice /\ [][NextPrice]_vars

(***************************************************************************)
(* Helpers of the properties: prefix sums over a queue.                    *)
(***************************************************************************)
RECURSIVE SumAmt(_, _)
SumAmt(q, k) == IF k = 0 THEN 0 ELSE SumAmt(q, k - 1) + q[k].amount

RECURSIVE SumCost(_, _)
SumCost(q, k) ==
  IF k = 0 THEN Dec(0) ELSE RAdd(SumCost(q, k - 1), q[k].cost_basis_usd)

IdsOf(q, k) == [i \in 1..k |-> q[i].trade_id]

PostQueue == Queue(inventory, last.token)

\* C1: for every asset, the remaining amounts of the queued lots plus the
\* amount consumed from lots by all disposals equals the amount added by
\* add_lot (the uncovered part of a disposal is not counted as matched).
C1_AmountConservation ==
  \A t \in Currencies :
    SumAmt(Queue(inventory, t), Len(Queue(inventory, t))) + matched[t] = added[t]

\* Witness of C1: a disposal has just consumed part of the inventory of an
\* asset and left a shrunk lot behind.
C1_Witness ==
  /\ last.op = "match_sell_fifo"
  /\ last.consumed > 0
  /\ PostQueue # <<>>
  /\ PostQueue[1].amount < last.pre[Len(last.pre) - Len(PostQueue) + 1].amount

\* C3: every head lot whose amount is <= the remaining amount is consumed
\* whole (cost added, lot popped, amount subtracted); the first head lot
\* larger than the remaining amount contributes cost * remaining / amount,
\* is shrunk in place by the remaining amount and by that cost, and matching
\* stops.  Lots [(100, $150), (50, $100)], disposal of 120: cost basis 190,
\* second lot left at 30 units / $60.
C3_ProRata ==
  (last.op = "match_sell_fifo" /\ last.pre # <<>>) =>
    LET pre == last.pre
        post == PostQueue
        A == last.amount
        k == Len(pre) - Len(post)
        r == A - SumAmt(pre, k)
    IN  /\ k >= 0
        /\ \A i \in 1..k :
             /\ A - SumAmt(pre, i - 1) > 0
             /\ pre[i].amount <= A - SumAmt(pre, i - 1)
        /\ IF k < Len(pre) /\ r > 0
           THEN LET contributed == RSub(last.cost, SumCost(pre, k)) IN
                /\ pre[k + 1].amount > r
                /\ RMul(contributed, Dec(pre[k + 1].amount))
                     = RMul(pre[k + 1].cost_basis_usd, Dec(r))
                /\ post[1].amount = pre[k + 1].amount - r
                /\ post[1].cost_basis_usd
                     = RSub(pre[k + 1].cost_basis_usd, contributed)
                /\ post[1].trade_id = pre[k + 1].trade_id
                /\ Tail(post) = SubSeq(pre, k + 2, Len(pre))
                /\ last.ids = IdsOf(pre, k + 1)
           ELSE /\ post = SubSeq(pre, k + 1, Len(pre))
                /\ last.ids = IdsOf(pre, k)
                /\ last.cost = RAdd(SumCost(pre, k),
                                    RMul(Dec(r), last.price))
        /\ (/\ Len(pre) = 2 /\ A = 120
            /\ pre[1].amount = 100 /\ pre[1].cost_basis_usd = Dec(150)
            /\ pre[2].amount = 50 /\ pre[2].cost_basis_usd = Dec(100))
           => /\ last.cost = Dec(190)
              /\ Len(post) = 1
              /\ post[1].amount = 30
              /\ post[1].cost_basis_usd = Dec(60)

\* Witness of C3: the disposal of 120 against lots (100, $150), (50, $100)
\* has been matched.
C3_Witness ==
  /\ last.op = "match_sell_fifo"
  /\ last.amount = 120
  /\ Len(last.pre) = 2
  /\ last.pre[1].amount = 100 /\ last.pre[1].cost_basis_usd = Dec(150)
  /\ last.pre[2].amount = 50 /\ last.pre[2].cost_basis_usd = Dec(100)
  /\ Len(PostQueue) = 1

\* C5: every lot that is still in an asset's queue has remaining amount > 0.
C5_QueuedLotsPositive ==
  \A t \in DOMAIN inventory :
    \A i \in 1..Len(inventory[t]) : inventory[t][i].amount > 0


\* C4: a disposal of amount A against open lots totalling L < A returns the
\* cost bases of all consumed lots plus (A - L) * fallback price, empties the
\* queue and reports no acquisition id for the uncovered part; with the
\* fallback price process_trades passes (proceeds / A) the gain on the
\* uncovered portion is zero, and the call returns normally.
C4_NoInventoryFallback ==
  LET pre == last.pre
      A == last.amount
      L == SumAmt(pre, Len(pre))
  IN  (last.op = "row" /\ last.outcome = "sell" /\ L < A) =>
        /\ last.cost = RAdd(SumCost(pre, Len(pre)),
                            RMul(Dec(A - L), last.price))
        /\ PostQueue = <<>>
        /\ last.ids = IdsOf(pre, Len(pre))
        /\ RMul(RSub(last.cost, SumCost(pre, Len(pre))), Dec(A))
             = RMul(Dec(last.proceeds), Dec(A - L))
        /\ pc # "crashed"
        /\ Len(tax_records) = last.pre_tax + 1

\* Witness of C4: a disposal with positive proceeds has consumed every lot
\* of a non-empty queue and was left partly uncovered.
C4_Witness ==
  /\ last.op = "row" /\ last.outcome = "sell"
  /\ Len(last.pre) >= 1
  /\ SumAmt(last.pre, Len(last.pre)) > 0
  /\ SumAmt(last.pre, Len(last.pre)) < last.amount
  /\ last.proceeds > 0

\* C7: process_trades never aborts; a row whose amounts or date cannot be
\* parsed is skipped and leaves the inventory and the tax records unchanged.
C7_MalformedRowsSkipped ==
  /\ pc # "crashed"
  /\ (/\ last.op = "row"
      /\ \/ last.row.source_amount.k = "bad"
         \/ last.row.target_amount.k = "bad"
         \/ last.row.date_time.k = "bad")
     => /\ last.outcome = "skipped"
        /\ inventory = last.pre_inv
        /\ Len(tax_records) = last.pre_tax

\* C2: reading the file the orchestrator wrote, the matcher finds at every
\* disposal the lot queue of the asset ordered by non-decreasing acquisition
\* date, so that the lot consumed first is the oldest one held.
C2_OldestFirst ==
  (last.op = "row" /\ last.outcome = "sell") =>
    \A i \in 1..Len(last.pre) : \A j \in 1..Len(last.pre) :
      i < j => last.pre[i].acquisition_date <= last.pre[j].acquisition_date

\* C6: every acquisition id reported for a disposal belongs to an acquisition
\* row with the address of the disposal.
C6_LedgerIsolation ==
  \A n \in 1..Len(tax_records) :
    \A k \in 1..Len(tax_records[n].buy_tx_ids) :
      DataRows[tax_records[n].buy_tx_ids[k]].address = tax_records[n].address

\* C8: unless the user interrupts, a failing (chain, address) pair never ends
\* main, and after the loop every configured pair has its recorded result.
C8_FailureIsolation ==
  (\A r \in results : r.status # "interrupted") =>
    /\ pc # "exited"
    /\ (pc = "main" /\ chain_i > Len(Chains)) =>
         \A c \in 1..Len(Chains) :
           \A a \in 1..Len(AddressesOf(Chains[c])) :
             \E r \in results :
               /\ r.chain = Chains[c]
               /\ r.address = AddressesOf(Chains[c])[a].name

\* C9: every trade in the list returned by parse_all_trades of a chain parser
\* has token_in different from token_out and both amounts greater than zero.
C9_CandidateSwapValid ==
  \A n \in 1..Len(parser_trades) :
    /\ parser_trades[n].token_in # parser_trades[n].token_out
    /\ parser_trades[n].amount_in > 0
    /\ parser_trades[n].amount_out > 0

NothingMoved(data, tx_hash) ==
  /\ \A n \in 1..Len(data.erc20_token_transfers) :
       LET t == data.erc20_token_transfers[n] IN
       t.hash = tx_hash => t.from # data.address /\ t.to # data.address
  /\ \A n \in 1..Len(data.normal_transactions) :
       LET t == data.normal_transactions[n] IN
       t.hash = tx_hash =>
         t.value = 0 \/ (t.from # data.address /\ t.to # data.address)
  /\ \A n \in 1..Len(data.internal_transactions) :
       LET t == data.internal_transactions[n] IN
       t.hash = tx_hash => t.to # data.address \/ t.value = 0

\* C10: a transaction in which the tracked address sent no token, received
\* no token and moved no native asset is classified as no swap (None) by the
\* classifier of each chain.
C10_NothingMovedIsNoSwap ==
  (parser_last.op = "classify" /\ NothingMoved(parser_data, parser_last.tx_hash))
    => parser_last.result = None

C10_Witness ==
  /\ parser_last.op = "classify"
  /\ NothingMoved(parser_data, parser_last.tx_hash)
  /\ parser_data.chain = "ethereum"
  /\ Len(parser_data.erc20_token_transfers) = 2
  /\ parser_data.erc20_token_transfers[1].value > 0
  /\ parser_data.erc20_token_transfers[2].value > 0
  /\ parser_data.normal_transactions[1].to = "router"
  /\ has_swap_function(parser_data.normal_transactions[1])
  /\ parser_last.result = None

NoNativeMovement(data, tx_hash) ==
  /\ \A n \in 1..Len(data.normal_transactions) :
       LET t == data.normal_transactions[n] IN
       t.hash = tx_hash =>
         t.value = 0 \/ (t.from # data.address /\ t.to # data.address)
  /\ \A n \in 1..Len(data.internal_transactions) :
       LET t == data.internal_transactions[n] IN
       t.hash = tx_hash => t.to # data.address \/ t.value = 0

OneSidedSend(data, tx_hash) ==
  /\ \E n \in 1..Len(data.erc20_token_transfers) :
       LET t == data.erc20_token_transfers[n] IN
       t.hash = tx_hash /\ t.from = data.address /\ t.value > 0
  /\ \A n \in 1..Len(data.erc20_token_transfers) :
       LET t == data.erc20_token_transfers[n] IN
       t.hash = tx_hash => t.to # data.address
  /\ NoNativeMovement(data, tx_hash)

\* C11: a transaction in which the tracked address sent a token, received
\* nothing and moved no native asset is classified as no swap (None),
\* whatever its call input and destination are.
C11_OneSidedIsNoSwap ==
  (parser_last.op = "classify" /\ OneSidedSend(parser_data, parser_last.tx_hash))
    => parser_last.result = None

TransferTotal(data, tx_hash, token, Side(_)) ==
  LET mine == SelectSeq(data.erc20_token_transfers,
                LAMBDA t : /\ t.hash = tx_hash /\ t.contractAddress = token
                           /\ Side(t) = data.address)
      S[i \in 0..Len(mine)] == IF i = 0 THEN 0 ELSE S[i - 1] + mine[i].value
  IN S[Len(mine)]

TotalReceived(data, tx_hash, token) ==
  TransferTotal(data, tx_hash, token, LAMBDA t : t.to)

TotalSent(data, tx_hash, token) ==
  TransferTotal(data, tx_hash, token, LAMBDA t : t.from)

TokensOf(data) ==
  {data.erc20_token_transfers[n].contractAddress :
     n \in 1..Len(data.erc20_token_transfers)}

\* C12: whenever a classifier aggregates the transfers of a transaction, the
\* received (sent) total of every token is the sum of the values of all its
\* transfers whose to (from) is the tracked address.
C12_AggregationSums ==
  (parser_last.op = "classify" /\ parser_last.aggregates.done) =>
    \A token \in TokensOf(parser_data) :
      /\ DictGet(parser_last.aggregates.received, token, 0)
           = TotalReceived(parser_data, parser_last.tx_hash, token)
      /\ DictGet(parser_last.aggregates.sent, token, 0)
           = TotalSent(parser_data, parser_last.tx_hash, token)

IsSelfTransfer(data, t) == t.from = data.address /\ t.to = data.address

OnlySelfTransfers(data, tx_hash) ==
  /\ \E n \in 1..Len(data.erc20_token_transfers) :
       data.erc20_token_transfers[n].hash = tx_hash
  /\ \A n \in 1..Len(data.erc20_token_transfers) :
       data.erc20_token_transfers[n].hash = tx_hash =>
         IsSelfTransfer(data, data.erc20_token_transfers[n])
  /\ NoNativeMovement(data, tx_hash)

\* C13: a transfer from the tracked address to itself is counted in both the
\* sent and the received totals of its token, and a transaction whose only
\* movement is such a transfer is classified as no swap (None).
C13_SelfTransfers ==
  parser_last.op = "classify" =>
    /\ parser_last.aggregates.done =>
         \A n \in 1..Len(parser_data.erc20_token_transfers) :
           LET t == parser_data.erc20_token_transfers[n] IN
           (t.hash = parser_last.tx_hash /\ IsSelfTransfer(parser_data, t)) =>
             /\ HasKey(parser_last.aggregates.sent, t.contractAddress)
             /\ HasKey(parser_last.aggregates.received, t.contractAddress)
    /\ OnlySelfTransfers(parser_data, parser_last.tx_hash) =>
         parser_last.result = None

NativeSentByUs(data, tx_hash, amount) ==
  \E n \in 1..Len(data.normal_transactions) :
    LET t == data.normal_transactions[n] IN
    t.hash = tx_hash /\ t.from = data.address /\ t.value = amount

NativeReceivedByUs(data, tx_hash, amount) ==
  \/ /\ amount > 0
     /\ amount = eth_received(data, tx_hash, data.address)
  \/ \E n \in 1..Len(data.normal_transactions) :
       LET t == data.normal_transactions[n] IN
       t.hash = tx_hash /\ t.to = data.address /\ t.value = amount

\* C14: in every swap the EVM classifier returns, a native token_in carries
\* as amount_in the value of a transaction sent by the tracked address, and a
\* native token_out carries as amount_out a native amount the tracked address
\* received.
C14_NativeLegDirection ==
  (parser_last.op = "classify" /\ parser_last.result # None) =>
    /\ parser_last.result.token_in = ETH_ADDRESS =>
         NativeSentByUs(parser_data, parser_last.tx_hash,
                        parser_last.result.amount_in)
    /\ parser_last.result.token_out = ETH_ADDRESS =>
         NativeReceivedByUs(parser_data, parser_last.tx_hash,
                            parser_last.result.amount_out)

\* C15: no swap the EVM classifier returns has a native leg whose amount is
\* below the threshold of 0.1 native unit.
C15_NativeDustFilter ==
  (parser_last.op = "classify" /\ parser_last.result # None) =>
    /\ parser_last.result.token_in = ETH_ADDRESS =>
         parser_last.result.amount_in >= TenthNative
    /\ parser_last.result.token_out = ETH_ADDRESS =>
         parser_last.result.amount_out >= TenthNative

\* The trade the resolver priced last.
ResolvedTrade == price_trades[price_last.trade]

\* A request of the last resolution asked for the symbol and got no price.
FailedLookup(symbol) ==
  \E i \in DOMAIN price_last.calls :
    /\ price_last.calls[i].symbol = Upper(symbol)
    /\ price_last.calls[i].outcome.kind # "price"

\* C16: the resolver returns a price assumed from a stablecoin leg (price
\* source "stablecoin") only after an external quote lookup for that
\* stablecoin has been sent for this trade and has failed.
C16_StablecoinAfterLookup ==
  (price_last.op = "resolve" /\ price_last.price_source = "stablecoin") =>
    \/ is_stablecoin(ResolvedTrade.source_symbol) /\ FailedLookup(ResolvedTrade.source_symbol)
    \/ is_stablecoin(ResolvedTrade.target_symbol) /\ FailedLookup(ResolvedTrade.target_symbol)

\* The price sources under which one leg's price comes from the other leg's
\* price and the exchange ratio of the swap.
DerivedSources == {"stablecoin", "calculated_from_feed", "calculated_from_coingecko", "derived", "calculated"}

UsdValue(price, amount) == RMul(price.v, amount)

ExactlyOneFound ==
  Truthy(price_last.found_source) # Truthy(price_last.found_target)

\* C17: a result whose second price was derived values both legs equally
\* (price_in * amount_in = price_out * amount_out); when the strategies found
\* the price of exactly one leg and both amounts are nonzero, that price is
\* returned unchanged and the other one is derived from it; and nothing is
\* derived when an amount is zero.
C17_RatioDerivation ==
  price_last.op = "resolve" =>
    LET sa == source_amount(ResolvedTrade)
        ta == target_amount(ResolvedTrade)
    IN  /\ price_last.price_source \in DerivedSources =>
             /\ Truthy(price_last.source_price)
             /\ Truthy(price_last.target_price)
             /\ UsdValue(price_last.source_price, sa) = UsdValue(price_last.target_price, ta)
        /\ (ExactlyOneFound /\ sa[1] # 0 /\ ta[1] # 0) =>
             /\ price_last.price_source \in DerivedSources
             /\ Truthy(price_last.found_source) => price_last.source_price = price_last.found_source
             /\ Truthy(price_last.found_target) => price_last.target_price = price_last.found_target
        /\ (sa[1] = 0 \/ ta[1] = 0) => price_last.price_source \notin DerivedSources

\* An external quote priced one leg of a swap of unequal amounts and the
\* other leg was derived from it.
C17_Witness ==
  /\ price_last.op = "resolve"
  /\ price_last.price_source = "calculated_from_coingecko"
  /\ source_amount(ResolvedTrade) # target_amount(ResolvedTrade)

\* C18: when the resolver ends with price source "unavailable", a price that
\* the feed or an external quote found for one leg is returned for that leg.
C18_PartialResultsSurvive ==
  (price_last.op = "resolve" /\ price_last.price_source = "unavailable") =>
    /\ Truthy(price_last.found_source) => price_last.source_price = price_last.found_source
    /\ Truthy(price_last.found_target) => price_last.target_price = price_last.found_target

PricesSet(trade) ==
  /\ trade.source_price_usd.type # "unset"
  /\ trade.target_price_usd.type # "unset"
  /\ trade.price_source # "unset"

\* C19: whatever the batch and whatever the quote requests come to,
\* add_prices_to_trades does not raise, and when it has returned every trade
\* of the batch has its two prices and its price source set.
C19_PricingNeverHalts ==
  /\ pc # "price_raised"
  /\ pc = "price_done" => \A i \in DOMAIN price_trades : PricesSet(price_trades[i])

CallKey(call) == <<call.symbol, call.date>>

\* C20: once a quote request for a symbol and a calendar day has been
\* answered with a price, no later resolution sends a request for the same
\* symbol and day again.
C20_NoSecondExternalCall ==
  price_last.op = "resolve" =>
    \A i \in DOMAIN price_last.calls :
      /\ CallKey(price_last.calls[i]) \notin price_last.quoted_before
      /\ \A j \in 1..(i - 1) :
           price_last.calls[j].outcome.kind = "price" =>
             CallKey(price_last.calls[j]) # CallKey(price_last.calls[i])

\* The USD amount of an exported row: the target amount of the row that sells
\* the source token, the source amount of the row that buys the target token.
UsdAmount(row) ==
  IF row.target_currency = "USD" THEN row.target_amount ELSE row.source_amount

UnpricedTrades == {trade \in TradeSet : trade.source_price_usd = 0}

\* C21: a trade without a source price is exported with the USD amount N/A
\* on both of its rows; process_trades skips a row with an N/A amount, leaving
\* the inventory and the tax records as they were, so that no lot has a cost
\* basis of 0 and no tax record has proceeds of 0.
C21_MissingPriceNeverZero ==
  /\ \A trade \in UnpricedTrades :
       \A i \in DOMAIN ExportRows(trade, "ethereum", "a1") :
         UsdAmount(ExportRows(trade, "ethereum", "a1")[i]) = NA
  /\ (last.op = "row" /\ last.outcome # "KeyError" /\ UsdAmount(last.row) = NA) =>
       /\ last.outcome = "skipped"
       /\ inventory = last.pre_inv
       /\ Len(tax_records) = last.pre_tax
  /\ \A t \in DOMAIN inventory : \A i \in DOMAIN inventory[t] :
       inventory[t][i].cost_basis_usd # Dec(0)
  /\ \A i \in DOMAIN tax_records : tax_records[i].sale_proceeds_usd # 0

C21_Witness ==
  /\ last.op = "row"
  /\ last.outcome = "skipped"
  /\ UsdAmount(last.row) = NA
  /\ last.row.source_currency = "USD"
  /\ inventory # <<>>

\* The values the contract of calculate_prices_for_trade lists.
ListedPriceSources == {"stablecoin", "feed", "coingecko", "derived", "unavailable"}

\* C22: the price source calculate_prices_for_trade returns is one of the
\* values its contract lists: stablecoin, feed, coingecko, derived,
\* unavailable.
C22_PriceSourceEnumeration ==
  price_last.op = "resolve" => price_last.price_source \in ListedPriceSources

\* The queues of every asset but the one of the last call are as they were.
OtherQueuesUnchanged ==
  \A t \in (DOMAIN inventory) \cup (DOMAIN last.pre_inv) :
    t # last.token => Queue(inventory, t) = Queue(last.pre_inv, t)

\* The lot is the one queued before, up to its remaining amount and cost basis.
SameLotReduced(lot, before) ==
  /\ lot.trade_id = before.trade_id
  /\ lot.acquisition_date = before.acquisition_date
  /\ lot.token_symbol = before.token_symbol
  /\ lot.amount <= before.amount
  /\ RLe(lot.cost_basis_usd, before.cost_basis_usd)

\* The queue is the queue before without its first k lots, the lot now at the
\* head possibly reduced.
HeadConsumed(q, before, k) ==
  /\ Len(q) = Len(before) - k
  /\ \A i \in 2..Len(q) : q[i] = before[k + i]
  /\ q # <<>> => SameLotReduced(q[1], before[k + 1])

\* C23: add_lot appends exactly one lot at the tail of the queue of its
\* asset and keeps the lots queued before as they were; match_sell_fifo
\* removes or reduces lots at the head of the queue of its asset only; both
\* leave the queue of every other asset unchanged, and match_sell_fifo on an
\* asset without a queue changes nothing.
C23_MatcherFrame ==
  /\ last.op = "add_lot" =>
       LET q == Queue(inventory, last.token) IN
       /\ Len(q) = Len(last.pre) + 1
       /\ SubSeq(q, 1, Len(last.pre)) = last.pre
       /\ q[Len(q)].amount = last.amount
       /\ q[Len(q)].cost_basis_usd = last.cost
       /\ DOMAIN inventory = (DOMAIN last.pre_inv) \cup {last.token}
       /\ OtherQueuesUnchanged
  /\ last.op = "match_sell_fifo" =>
       /\ \E k \in 0..Len(last.pre) :
            HeadConsumed(Queue(inventory, last.token), last.pre, k)
       /\ DOMAIN inventory = DOMAIN last.pre_inv
       /\ OtherQueuesUnchanged
       /\ ~last.had_key => inventory = last.pre_inv

\* A disposal that changes the head of a queue of several lots while another
\* asset has a queue of its own.
C23_Witness ==
  /\ last.op = "match_sell_fifo"
  /\ Len(last.pre) >= 2
  /\ last.consumed > 0
  /\ Queue(inventory, last.token) # <<>>
  /\ Queue(inventory, last.token)[1] # last.pre[1]
  /\ \E t \in DOMAIN inventory : t # last.token /\ inventory[t] # <<>>

C25_MatchedIdsSound ==
  last.op = "match_sell_fifo" =>
    /\ Len(last.ids) <= Len(last.pre)
    /\ \A i \in DOMAIN last.ids :
         /\ last.ids[i] = last.pre[i].trade_id
         /\ last.pre[i].token_symbol = last.token
         /\ last.pre[i].amount > 0
         /\ \A j \in DOMAIN last.ids : last.ids[j] = last.ids[i] => j = i

\* C26: reading the file the orchestrator wrote, every lot a disposal is
\* matched against was acquired no later than the date of the disposal.
C26_NoMatchingAgainstFuture ==
  (last.op = "row" /\ last.outcome = "sell") =>
    \A i \in DOMAIN last.ids :
      last.pre[i].acquisition_date <= last.row.date_time.v

\* The entries find_price_in_feed looks at: those stored for the address when
\* there are any, else those of every address registered under the symbol.
EntriesOf(feed, addrs) ==
  UNION {{feed[a][i] : i \in DOMAIN feed[a]} : a \in addrs \cap DOMAIN feed}

Candidates(feed, s2a, token_address, token_symbol) ==
  IF token_address # NoAddress /\ EntriesOf(feed, {token_address}) # {}
  THEN EntriesOf(feed, {token_address})
  ELSE IF token_symbol # NoSymbol /\ Upper(token_symbol) \in DOMAIN s2a
  THEN EntriesOf(feed, s2a[Upper(token_symbol)])
  ELSE {}

WithinWindow(entries, t, max_hours) ==
  {e \in entries : Abs(e[1] - t) <= max_hours * 3600}

ClosestPrices(entries, t) ==
  {e[2] : e \in {f \in entries : \A g \in entries : Abs(f[1] - t) <= Abs(g[1] - t)}}

FeedLookupCorrect(feed, s2a, token_address, token_symbol, t) ==
  LET entries == Candidates(feed, s2a, token_address, token_symbol)
      inside == WithinWindow(entries, t, MaxHours)
      price == find_price_in_feed(feed, s2a, token_address, token_symbol, t, MaxHours)
  IN  IF inside # {} THEN price \in ClosestPrices(inside, t)
      ELSE IF entries # {} THEN price \in ClosestPrices(entries, t)
      ELSE price = None

\* C27: on every price feed add_prices_to_trades builds, and for each leg of
\* each trade of the batch, find_price_in_feed returns the price of an entry
\* closest in time among the entries within max_hours, with none in the
\* window the price of an entry closest of all, and None only when there is
\* no entry for the address and none under the symbol.
C27_FeedLookup ==
  pc = "price_loop" =>
    \A k \in DOMAIN price_trades :
      /\ FeedLookupCorrect(price_feed, symbol_to_addresses, price_trades[k].token_in_addr, price_trades[k].source_symbol, price_trades[k].timestamp)
      /\ FeedLookupCorrect(price_feed, symbol_to_addresses, price_trades[k].token_out_addr, price_trades[k].target_symbol, price_trades[k].timestamp)

\* A leg whose feed entries all lie outside the window gets the price of the
\* closest one.
C27_Witness ==
  /\ pc = "price_loop"
  /\ \E k \in DOMAIN price_trades :
       LET trade == price_trades[k]
           entries == Candidates(price_feed, symbol_to_addresses, trade.token_in_addr, trade.source_symbol)
       IN  /\ entries # {}
           /\ WithinWindow(entries, trade.timestamp, MaxHours) = {}
           /\ Truthy(find_price_in_feed(price_feed, symbol_to_addresses, trade.token_in_addr, trade.source_symbol, trade.timestamp, MaxHours))

\* C28: after any number of calls of parse_all_trades on a parser, its trade
\* list holds at most one trade for each transaction hash.
C28_OneTradePerTransaction ==
  \A i \in DOMAIN parser_trades : \A j \in DOMAIN parser_trades :
    parser_trades[i].tx_hash = parser_trades[j].tx_hash => i = j

\* C29: whatever the per-address runs of main do, the combined trade file,
\* when it exists, begins with the header row and holds no other header row.
C29_CombinedOutputKeepsHeader ==
  output_csv.exists =>
    /\ output_csv.lines # <<>>
    /\ IsHeader(output_csv.lines[1])
    /\ \A i \in 2..Len(output_csv.lines) : ~IsHeader(output_csv.lines[i])

\* C30: calculate_prices_for_trade returns either two prices and a price
\* source other than unavailable, or no price and the price source
\* unavailable; never exactly one price.
C30_PriceResultConsistency ==
  price_last.op = "resolve" =>
    \/ /\ Truthy(price_last.source_price)
       /\ Truthy(price_last.target_price)
       /\ price_last.price_source # "unavailable"
    \/ /\ price_last.source_price = None
       /\ price_last.target_price = None
       /\ price_last.price_source = "unavailable"

\* A resolution that found one price only and could not derive the other.
C30_Witness ==
  /\ price_last.op = "resolve"
  /\ price_last.price_source = "unavailable"
  /\ Truthy(price_last.found_source) # Truthy(price_last.found_target)

====
